---- MODULE Spec2Model ----
(***************************************************************************)
(* Model of llm-proxy: the Loki exporter (loki_exporter.go), the           *)
(* MultiWriter fan-out (multi_writer.go), the session manager (session.go) *)
(* with the request handler that uses it (proxy.go), and the retry backoff *)
(* of the exporter.                                                        *)
(***************************************************************************)
EXTENDS Integers, Sequences, FiniteSets, TLC

(***************************************************************************)
(* Bounds of the model.                                                    *)
(***************************************************************************)
\* cfg.BufferSize: capacity of entryChan
BufferSize == 1
\* cfg.BatchSize: size that triggers a flush
BatchSize == 2
\* cfg.RetryMax
RetryMax == 1
\* number of Push calls explored
MaxPush == 3
\* number of HTTP requests explored
MaxReq == 2
\* number of failures (database, file system, journal write, upstream) that
\* the requests explored meet
MaxFaults == 1
\* length of an upstream response body, in bytes
MaxBody == 3
\* capacity of the Bedrock semaphore
bedrockMaxConcurrent == 2

Closers == {"c1", "c2"}

VARIABLES
    \* ---- LokiExporter (loki_exporter.go) ----
    entryChan,        \* buffered channel of lokiEntry, a sequence
    closeChan,        \* TRUE once close(e.closeChan) has run
    closedChan,       \* TRUE once the worker has closed e.closedChan
    closeOnce,        \* sync.Once of Close/forceClose: "fresh", "running", "done"
    entriesSent, entriesFailed, entriesDropped, batchesSent,
    batch,            \* the worker's batch buffer (local of run)
    wpc,              \* position of the worker goroutine
    wctx,             \* which flush of run called sendBatch: "size", "tick", "final"
    attempt,          \* loop variable of sendBatch
    cpc, cres,        \* position and result of each Close() caller
    \* ---- history of the exporter, for the properties ----
    pushCalls,        \* number of Push calls made so far
    lastPush,         \* what the last Push call did
    accepted,         \* ids of the entries that Push enqueued
    handled,          \* ids of the entries a finished sendBatch has counted
    dispatches,       \* doSend calls made for the batch being sent
    failedAfter,      \* doSend calls that preceded the last give-up (0: none yet)
    cmark,            \* pushCalls when each Close() caller made its call
    csig,             \* TRUE for the caller that ran the closeOnce body
    cdead,            \* each Close() call's ShutdownTimeout: "none" while it has not
                      \* elapsed, then "intime" or "late" as the worker had finished or not
    closeSignals,     \* number of close(e.closeChan) executed (a second one panics)
    finalBatches,     \* number of final batches handed to sendBatch
    \* ---- sendBatch's retry loop against a failing endpoint ----
    bkRetryWait,      \* e.config.RetryWait
    bkRetryMax,       \* e.config.RetryMax
    bkAttempt,        \* loop variable attempt
    bkSleep,          \* the last argument of time.Sleep
    \* ---- Logger (logger.go): the journal files ----
    journal,          \* per session, the lines appended to its .jsonl file
    \* ---- MultiWriter (multi_writer.go) ----
    mwClose,          \* position of MultiWriter.Close: "idle", "entered", "done"
    fileClosed,       \* TRUE once m.file.Close() has been called
    mwCloseRet,       \* what MultiWriter.Close returned
    lokiPresent,      \* m.loki != nil
    mwCalls,          \* number of log method calls made so far
    mwLast,           \* the last log method call: its Logger error, what it
                      \* returned and whether it called Push
    \* ---- SessionManager (session.go) and its SessionDB ----
    db,               \* the sessions table: session id -> client id, last_seq
    nextSid,          \* number of session ids generateSessionID has produced
    \* ---- Proxy.ServeHTTP (proxy.go), one goroutine per request ----
    hpc,              \* position of each handler goroutine
    hreq,             \* the request it serves
    hsid, hseq,       \* its locals sessionID and seq
    reqCount,         \* number of requests received so far
    \* ---- history of the handlers, for the properties ----
    assigned,         \* per request, in the order of the session manager's
                      \* lock: what the handler obtained
    faults,           \* number of failures the handlers have met so far
    lost,             \* the journal writes of the handlers that failed:
                      \* <<type, session, seq>>
    \* ---- Proxy.ServeHTTP from the upstream call on, one request ----
    upErr,            \* p.client.Do returned an error
    upResp,           \* the response of the upstream: status, headers, body
    upCut,            \* number of body bytes that arrive before the
                      \* connection fails (the whole body: no failure)
    pxpc,             \* position in ServeHTTP / streamResponse
    pxRead,           \* body bytes consumed from resp.Body
    respBody,         \* local respBody of ServeHTTP
    cliStatus,        \* status written to the client (0: none yet)
    cliHeaders,       \* w.Header() as sent
    cliBody,          \* bytes written to the client
    cliChunks,        \* the Write calls of a streamed response
    cliGone,          \* the client has closed its connection
    \* ---- serveBedrock: the concurrency semaphore ----
    semaphore,        \* number of permits taken (elements of the channel)
    bpc,              \* position of each Bedrock request
    bstatus,          \* status its client got (0: none yet)
    \* ---- main: the shutdown goroutine ----
    signalled,        \* ctx.Done() is closed (SIGINT or SIGTERM arrived)
    loggerClosed,     \* srv.Close() has run Logger.Close (l.files = nil)
    \* ---- ComputePatterns on the PatternState of one session ----
    ptState,          \* ToolStreak, RetryCount, LastToolName, LastWasError
    ptCalls,          \* number of ComputePatterns calls made
    ptLast,           \* the last call: its argument, the state it found, its result,
                      \* and the number of calls in a row with this argument
    \* ---- the event engine on the turns of one session ----
    egState,          \* the persisted PatternState of the session
    egpc,             \* position of the engine in the turn: "idle", "folded", "started", "ended"
    egWork,           \* the turn being processed: the loaded state and what was emitted
    egLast,           \* the last turn completed, as emitted
    egTurns,          \* number of turns completed
    nextToolId,       \* ids of the tool_use blocks issued so far
    egOpen,           \* ids of tool_use blocks of completed turns still without a tool_result
    egTools,          \* tool_use names of the last turn and of the last turn that had any
    \* ---- sendBatch: the grouping of a batch into streams ----
    sbEntries,        \* the batch sendBatch was called with
    sbIdx,            \* how many of its entries the grouping loop has handled
    sbStreams,        \* streams: labelKey -> stream (labels, values)
    sbRequest,        \* request.Streams
    sbpc,             \* "group" in the loop, "built" once the request is built
    \* ---- Logger: the file handles and the bytes of the journal files ----
    lgFiles,          \* l.files: the sessions that have a handle in the map
    lgOpens,          \* number of handles os.OpenFile has opened on each file
    lgMu,             \* holder of l.mu, "none" when free
    lgpc,             \* position of each writeEntry call
    lgSid,            \* its session
    lgCall,           \* its number, which names the line it writes
    lgOff,            \* bytes of the line written so far
    lgFile,           \* content of each file: bytes, each <<call, offset>>
    lgCalls,          \* number of writeEntry calls made
    \* ---- LimitedWriter ----
    lwN,              \* N: the limit in bytes
    lwW,              \* W: the bytes the underlying writer has taken
    lwOverflow,       \* Overflow
    lwLen,            \* length of the chunk of the latest Write
    lwRet,            \* what the latest Write returned
    lwWrites,         \* number of Write calls made
    \* ---- ObfuscateHeaders ----
    obHeaders,        \* the header map at hand
    obPrev,           \* the map it was obtained from
    obN,              \* number of times ObfuscateHeaders has been applied
    \* ---- GetOrCreateSession, statement by statement, under sm.mu ----
    sqDb,             \* the sessions table
    sqNext,           \* number of ids generateSessionID has returned
    sqMu,             \* holder of sm.mu, "none" when free
    sqpc,             \* position of each call
    sqCid,            \* its client session id
    sqSid,            \* existingSession
    sqLast,           \* lastSeq as it read it
    sqReturned,       \* the (sessionID, seq) pairs returned without error
    sqCalls,          \* number of calls made
    \* ---- turns of one session that complete concurrently ----
    tcStored,         \* the pattern_state row of the session
    tcpc,             \* position of each turn: "idle", "loaded", "computed"
    tcLocal,          \* the *PatternState each turn holds
    tcDone,           \* number of turns that have persisted
    tcToolSum         \* tool uses of the turns computed so far

exVars == <<entryChan, closeChan, closedChan, closeOnce, entriesSent, entriesFailed,
            entriesDropped, batchesSent, batch, wpc, wctx, attempt, cpc, cres,
            pushCalls, lastPush, accepted, handled, dispatches, failedAfter,
            cmark, csig, cdead, closeSignals, finalBatches>>

bkVars == <<bkRetryWait, bkRetryMax, bkAttempt, bkSleep>>

mcVars == <<mwClose, fileClosed, mwCloseRet>>

mwVars == <<lokiPresent, mwCalls, mwLast, mcVars>>

seVars == <<db, nextSid, hpc, hreq, hsid, hseq, reqCount, assigned, faults, lost>>

pxVars == <<upErr, upResp, upCut, pxpc, pxRead, respBody, cliStatus, cliHeaders,
            cliBody, cliChunks, cliGone>>

\* the variables of the parts that the exporter, the writer and the session
\* manager never touch
bdVars == <<semaphore, bpc, bstatus>>

svVars == <<signalled, loggerClosed>>

ptVars == <<ptState, ptCalls, ptLast>>

egVars == <<egState, egpc, egWork, egLast, egTurns, nextToolId, egOpen, egTools>>

sbVars == <<sbEntries, sbIdx, sbStreams, sbRequest, sbpc>>

lgVars == <<lgFiles, lgOpens, lgMu, lgpc, lgSid, lgCall, lgOff, lgFile, lgCalls>>

lwVars == <<lwN, lwW, lwOverflow, lwLen, lwRet, lwWrites>>

obVars == <<obHeaders, obPrev, obN>>

sqVars == <<sqDb, sqNext, sqMu, sqpc, sqCid, sqSid, sqLast, sqReturned, sqCalls>>

tcVars == <<tcStored, tcpc, tcLocal, tcDone, tcToolSum>>

lastVars == <<obVars, sqVars, tcVars>>

moreVars == <<egVars, sbVars, lgVars, lwVars, lastVars>>

restVars == <<pxVars, bdVars, svVars, ptVars, moreVars>>

vars == <<exVars, bkVars, journal, mwVars, seVars, restVars>>

notExporter == <<bkVars, journal, mwVars, seVars, restVars>>

(***************************************************************************)
(* LokiExporter                                                            *)
(***************************************************************************)
Ids(s) == {s[i].id : i \in 1..Len(s)}

\* select { case e.entryChan <- le: ... default: ... }: the send case is ready
\* iff the buffer has room
ChanFull_NoDrop(ch) == Len(ch) >= BufferSize + 1
ChanFull(ch) == Len(ch) >= BufferSize

\* number of entries of the batch whose json.Marshal fails in sendBatch
MarshalFailures(b) == Cardinality({i \in 1..Len(b) : ~b[i].ok})

\* run, drain loop: select { case entry := <-e.entryChan: ... default: draining = false }
DrainDone_NoDrain(ch) == TRUE
DrainDone(ch) == ch = <<>>

\* for attempt := 0; attempt <= e.config.RetryMax; attempt++
LoopContinues_Short(a) == a < RetryMax
LoopContinues(a) == a <= RetryMax

InitExporter ==
    /\ entryChan = <<>>
    /\ closeChan = FALSE
    /\ closedChan = FALSE
    /\ closeOnce = "fresh"
    /\ entriesSent = 0
    /\ entriesFailed = 0
    /\ entriesDropped = 0
    /\ batchesSent = 0
    /\ batch = <<>>
    /\ wpc = "select"
    /\ wctx = "none"
    /\ attempt = 0
    /\ cpc = [c \in Closers |-> "idle"]
    /\ cres = [c \in Closers |-> "none"]
    /\ pushCalls = 0
    /\ lastPush = [id |-> 0, enqueued |-> FALSE]
    /\ accepted = {}
    /\ handled = {}
    /\ dispatches = 0
    /\ failedAfter = 0
    /\ cmark = [c \in Closers |-> 0]
    /\ csig = [c \in Closers |-> FALSE]
    /\ cdead = [c \in Closers |-> "none"]
    /\ closeSignals = 0
    /\ finalBatches = 0

workerVars == <<batch, wpc, wctx, attempt, dispatches, failedAfter, handled,
                entriesSent, entriesFailed, batchesSent, closedChan, finalBatches>>
closerVars == <<closeChan, closeOnce, cpc, cres, cmark, csig, cdead, closeSignals>>
pushVars == <<pushCalls, lastPush, accepted, entriesDropped>>

\* the body of Push(entry, provider); ok tells whether json.Marshal(entry) will
\* succeed in sendBatch
PushEntry(ok) ==
    /\ pushCalls' = pushCalls + 1
    /\ LET le == [id |-> pushCalls + 1, ok |-> ok] IN
       IF ChanFull(entryChan)
       THEN /\ entriesDropped' = entriesDropped + 1
            /\ lastPush' = [id |-> le.id, enqueued |-> FALSE]
            /\ UNCHANGED <<entryChan, accepted>>
       ELSE /\ entryChan' = Append(entryChan, le)
            /\ accepted' = accepted \cup {le.id}
            /\ lastPush' = [id |-> le.id, enqueued |-> TRUE]
            /\ UNCHANGED entriesDropped
    /\ UNCHANGED <<workerVars, closerVars>>

\* a direct call of Push
Push(ok) ==
    /\ pushCalls < MaxPush
    /\ PushEntry(ok)
    /\ UNCHANGED notExporter

\* the first part of sendBatch(b): the grouping loop, which counts every entry
\* whose json.Marshal fails in entriesFailed, up to the retry loop
EnterSendBatch(b, ctx) ==
    /\ batch' = b
    /\ wctx' = ctx
    /\ entriesFailed' = entriesFailed + MarshalFailures(b)
    /\ attempt' = 0
    /\ dispatches' = 0
    /\ wpc' = "send"
    /\ finalBatches' = IF ctx = "final" THEN finalBatches + 1 ELSE finalBatches

\* run, case entry := <-e.entryChan: if len(batch) >= e.config.BatchSize
BatchFull_Late(b) == Len(b) > BatchSize
BatchFull(b) == Len(b) >= BatchSize

\* run: case entry := <-e.entryChan
WorkerRecv ==
    /\ wpc = "select"
    /\ entryChan # <<>>
    /\ entryChan' = Tail(entryChan)
    /\ LET b == Append(batch, Head(entryChan)) IN
       IF BatchFull(b)
       THEN EnterSendBatch(b, "size")
       ELSE /\ batch' = b
            /\ UNCHANGED <<wpc, wctx, attempt, dispatches, entriesFailed, finalBatches>>
    /\ UNCHANGED <<failedAfter, handled, entriesSent, batchesSent, closedChan,
                   closerVars, pushVars>>
    /\ UNCHANGED notExporter

\* run, case <-ticker.C: if len(batch) > 0
TickFlushes_WhenFull(b) == Len(b) >= BatchSize
TickFlushes(b) == Len(b) > 0

\* run: case <-ticker.C (with an empty batch the case changes nothing)
WorkerTick ==
    /\ wpc = "select"
    /\ TickFlushes(batch)
    /\ EnterSendBatch(batch, "tick")
    /\ UNCHANGED <<entryChan, failedAfter, handled, entriesSent, batchesSent,
                   closedChan, closerVars, pushVars>>
    /\ UNCHANGED notExporter

\* run: case <-e.closeChan
WorkerClose ==
    /\ wpc = "select"
    /\ closeChan
    /\ wpc' = "drain"
    /\ UNCHANGED <<entryChan, batch, wctx, attempt, dispatches, failedAfter, handled,
                   entriesSent, entriesFailed, batchesSent, closedChan, finalBatches,
                   closerVars, pushVars>>
    /\ UNCHANGED notExporter

\* run: one turn of the drain loop; when the channel is empty, the final batch
\* is sent, or the worker returns (defer close(e.closedChan))
WorkerDrain ==
    /\ wpc = "drain"
    /\ IF ~DrainDone(entryChan)
       THEN /\ entryChan' = Tail(entryChan)
            /\ batch' = Append(batch, Head(entryChan))
            /\ UNCHANGED <<wpc, wctx, attempt, dispatches, entriesFailed, closedChan,
                           finalBatches>>
       ELSE IF Len(batch) > 0
       THEN /\ EnterSendBatch(batch, "final")
            /\ UNCHANGED <<entryChan, closedChan>>
       ELSE /\ wpc' = "exited"
            /\ closedChan' = TRUE
            /\ UNCHANGED <<entryChan, batch, wctx, attempt, dispatches, entriesFailed,
                           finalBatches>>
    /\ UNCHANGED <<failedAfter, handled, entriesSent, batchesSent, closerVars, pushVars>>
    /\ UNCHANGED notExporter

\* sendBatch returns to run
ReturnFromSend ==
    /\ handled' = handled \cup Ids(batch)
    /\ batch' = <<>>
    /\ IF wctx = "final"
       THEN wpc' = "exited" /\ closedChan' = TRUE
       ELSE wpc' = "select" /\ UNCHANGED closedChan
    /\ wctx' = "none"

\* sendBatch: one turn of the retry loop from e.doSend on; sendOk is the
\* outcome of the HTTP POST
WorkerSend(sendOk) ==
    /\ wpc = "send"
    /\ dispatches' = dispatches + 1
    /\ IF sendOk
       THEN /\ entriesSent' = entriesSent + Len(batch)
            /\ batchesSent' = batchesSent + 1
            /\ ReturnFromSend
            /\ UNCHANGED <<attempt, entriesFailed, failedAfter>>
       ELSE IF LoopContinues(attempt + 1)
       THEN /\ attempt' = attempt + 1
            /\ wpc' = "sleep"
            /\ UNCHANGED <<batch, wctx, handled, entriesSent, entriesFailed,
                           batchesSent, failedAfter, closedChan>>
       ELSE /\ entriesFailed' = entriesFailed + Len(batch)
            /\ failedAfter' = dispatches + 1
            /\ ReturnFromSend
            /\ UNCHANGED <<attempt, entriesSent, batchesSent>>
    /\ UNCHANGED <<entryChan, finalBatches, closerVars, pushVars>>
    /\ UNCHANGED notExporter

\* sendBatch: time.Sleep(delay + jitter) before a retry
WorkerSleep ==
    /\ wpc = "sleep"
    /\ wpc' = "send"
    /\ UNCHANGED <<entryChan, batch, wctx, attempt, dispatches, failedAfter, handled,
                   entriesSent, entriesFailed, batchesSent, closedChan, finalBatches,
                   closerVars, pushVars>>
    /\ UNCHANGED notExporter

\* sync.Once.Do runs its function only for the first call
OnceFresh_Always(o) == TRUE
OnceFresh(o) == o = "fresh"

\* Close(): return timeoutErr, which only the time.After case of the select sets
CloseResult_AlwaysNil(timedOut) == "nil"
CloseResult(timedOut) == IF timedOut THEN "timeout" ELSE "nil"

\* Close(): the call enters e.closeOnce.Do
CloseCall(c) ==
    /\ cpc[c] = "idle"
    /\ cmark' = [cmark EXCEPT ![c] = pushCalls]
    /\ IF OnceFresh(closeOnce)
       THEN /\ closeOnce' = "running"
            /\ closeChan' = TRUE
            /\ closeSignals' = closeSignals + 1
            /\ csig' = [csig EXCEPT ![c] = TRUE]
            /\ cpc' = [cpc EXCEPT ![c] = "waiting"]
            /\ UNCHANGED <<cres, cdead>>
       ELSE IF closeOnce = "running"
       THEN /\ cpc' = [cpc EXCEPT ![c] = "blocked"]
            /\ UNCHANGED <<closeOnce, closeChan, closeSignals, csig, cres, cdead>>
       ELSE /\ cpc' = [cpc EXCEPT ![c] = "returned"]
            /\ cres' = [cres EXCEPT ![c] = CloseResult(FALSE)]
            /\ UNCHANGED <<closeOnce, closeChan, closeSignals, csig, cdead>>
    /\ UNCHANGED <<entryChan, workerVars, pushVars>>
    /\ UNCHANGED notExporter

\* Close(): case <-e.closedChan
CloseClean(c) ==
    /\ cpc[c] = "waiting"
    /\ closedChan
    /\ closeOnce' = "done"
    /\ cpc' = [cpc EXCEPT ![c] = "returned"]
    /\ cres' = [cres EXCEPT ![c] = CloseResult(FALSE)]
    /\ cdead' = [cdead EXCEPT ![c] = "intime"]
    /\ UNCHANGED <<closeChan, closeSignals, cmark, csig, entryChan, workerVars, pushVars>>
    /\ UNCHANGED notExporter

\* Close(): case <-time.After(e.config.ShutdownTimeout); the timer (always
\* positive, see the defaults of NewLokiExporter) fires while the caller is
\* parked in the select, that is before e.closedChan was closed
CloseTimeout(c) ==
    /\ cpc[c] = "waiting"
    /\ ~closedChan
    /\ closeOnce' = "done"
    /\ cpc' = [cpc EXCEPT ![c] = "returned"]
    /\ cres' = [cres EXCEPT ![c] = CloseResult(TRUE)]
    /\ cdead' = [cdead EXCEPT ![c] = "late"]
    /\ UNCHANGED <<closeChan, closeSignals, cmark, csig, entryChan, workerVars, pushVars>>
    /\ UNCHANGED notExporter

\* Close(): a caller that found the Once running returns when it is done
CloseUnblock(c) ==
    /\ cpc[c] = "blocked"
    /\ closeOnce = "done"
    /\ cpc' = [cpc EXCEPT ![c] = "returned"]
    /\ cres' = [cres EXCEPT ![c] = CloseResult(FALSE)]
    /\ UNCHANGED <<closeOnce, closeChan, closeSignals, cmark, csig, cdead, entryChan,
                   workerVars, pushVars>>
    /\ UNCHANGED notExporter

\* forceClose(): e.closeOnce.Do(func() { close(e.closeChan) }), without waiting
\* (no effect once the Once ran)
forceClose ==
    /\ OnceFresh(closeOnce)
    /\ closeOnce' = "done"
    /\ closeChan' = TRUE
    /\ closeSignals' = closeSignals + 1
    /\ UNCHANGED <<cpc, cres, cmark, csig, cdead, entryChan, workerVars, pushVars>>
    /\ UNCHANGED notExporter

\* e.config.ShutdownTimeout has elapsed since a Close() call that did not run
\* the closeOnce body and has returned (the caller that runs the body sees its
\* timer in the select of CloseClean and CloseTimeout)
CloseElapsed(c) ==
    /\ cpc[c] = "returned"
    /\ ~csig[c]
    /\ cdead[c] = "none"
    /\ cdead' = [cdead EXCEPT ![c] = IF closedChan THEN "intime" ELSE "late"]
    /\ UNCHANGED <<closeOnce, closeChan, closeSignals, cpc, cres, cmark, csig,
                   entryChan, workerVars, pushVars>>
    /\ UNCHANGED notExporter

\* the exporter while it runs: no Close() and no forceClose()
NextRunning ==
    \/ \E ok \in BOOLEAN : Push(ok)
    \/ WorkerRecv
    \/ WorkerTick
    \/ \E sendOk \in BOOLEAN : WorkerSend(sendOk)
    \/ WorkerSleep

\* the worker goroutine is scheduled, the ticker fires every BatchWait, the
\* HTTP POST returns within its timeout and time.Sleep returns
FairRunning ==
    /\ WF_vars(WorkerRecv)
    /\ WF_vars(WorkerTick)
    /\ WF_vars(\E sendOk \in BOOLEAN : WorkerSend(sendOk))
    /\ WF_vars(WorkerSleep)

NextExporter ==
    \/ \E ok \in BOOLEAN : Push(ok)
    \/ WorkerRecv
    \/ WorkerTick
    \/ WorkerClose
    \/ WorkerDrain
    \/ \E sendOk \in BOOLEAN : WorkerSend(sendOk)
    \/ WorkerSleep
    \/ \E c \in Closers : CloseCall(c)
    \/ \E c \in Closers : CloseClean(c)
    \/ \E c \in Closers : CloseTimeout(c)
    \/ \E c \in Closers : CloseUnblock(c)
    \/ \E c \in Closers : CloseElapsed(c)
    \/ forceClose


(***************************************************************************)
(* The retry delays of sendBatch. Durations are counted in units of 100 ms *)
(* and time.Duration (int64 in the code) is DurBits wide: arithmetic wraps *)
(* as the code's does.                                                     *)
(***************************************************************************)
\* width of time.Duration in the model
DurBits == 10
\* largest cfg.RetryWait and cfg.RetryMax explored
MaxRetryWait == 18
MaxRetryMax == 12
\* 10 * time.Second
RetryWaitCap == 100
\* NewLokiExporter: cfg.RetryMax = 5, cfg.RetryWait = 100 * time.Millisecond
DefaultRetryMax == 5
DefaultRetryWait == 1

Pow2(n) == 2^n

\* two's complement value of x in DurBits bits
Wrap(x) ==
    LET m == x % Pow2(DurBits)
    IN  IF m >= Pow2(DurBits - 1) THEN m - Pow2(DurBits) ELSE m

\* time.Duration(1 << n): 0 once the shift count reaches the width
Shl1(n) == IF n >= DurBits THEN 0 ELSE Wrap(Pow2(n))

\* delay := e.config.RetryWait * time.Duration(1<<(attempt-1)), capped at 10 s
BackoffDelay_NoCap(wait, a) == Wrap(wait * Shl1(a - 1))
BackoffDelay(wait, a) ==
    LET delay == Wrap(wait * Shl1(a - 1))
    IN  IF delay > RetryWaitCap THEN RetryWaitCap ELSE delay

\* jitter := time.Duration(float64(delay) * 0.25 * rand.Float64()): the values
\* of delay * 0.25 * r for r in [0, 1), truncated toward zero
Jitter(delay) ==
    IF delay > 0 THEN 0..((delay - 1) \div 4)
    ELSE IF delay < 0 THEN {0 - k : k \in 0..((0 - delay - 1) \div 4)}
    ELSE {0}

\* NewLokiExporter: "Apply defaults"
ApplyDefault(v, d) == IF v <= 0 THEN d ELSE v

InitBackoff ==
    /\ bkRetryWait \in {ApplyDefault(w, DefaultRetryWait) : w \in 0..MaxRetryWait}
    /\ bkRetryMax \in {ApplyDefault(m, DefaultRetryMax) : m \in 0..MaxRetryMax}
    /\ bkAttempt = 0
    /\ bkSleep = 0

idleBackoff ==
    /\ bkRetryWait = DefaultRetryWait
    /\ bkRetryMax = DefaultRetryMax
    /\ bkAttempt = 0
    /\ bkSleep = 0

\* sendBatch: e.doSend failed and the loop goes on: attempt++, then
\* time.Sleep(delay + jitter)
BackoffRetry(jitter) ==
    /\ bkAttempt + 1 <= bkRetryMax
    /\ bkAttempt' = bkAttempt + 1
    /\ bkSleep' = BackoffDelay(bkRetryWait, bkAttempt + 1) + jitter
    /\ UNCHANGED <<bkRetryWait, bkRetryMax, exVars, journal, mwVars, seVars, restVars>>

NextBackoff ==
    \E jitter \in Jitter(BackoffDelay(bkRetryWait, bkAttempt + 1)) : BackoffRetry(jitter)

(***************************************************************************)
(* Logger: the journal                                                     *)
(***************************************************************************)
\* session ids of the journal files: a request takes at most two ids, one
\* in the session manager and one in the handler's fallback
MaxSid == 2 * MaxReq
SessionIds == 1..MaxSid

NoErr == "nil"
\* the errors of getFile and f.Write
JournalErrors == {"EIO", "ENOSPC"}

InitJournal == journal = [s \in SessionIds |-> <<>>]

\* Logger.writeEntry: getFile, json.Marshal and, under l.mu, one f.Write of
\* the line; err is the outcome
writeEntry(j, sid, entry, err) ==
    IF err = NoErr THEN [j EXCEPT ![sid] = Append(@, entry)] ELSE j

(***************************************************************************)
(* MultiWriter                                                             *)
(***************************************************************************)
\* number of log method calls explored
MaxLog == 2
\* the caller of m.loki.Close()
WriterCloser == "c1"

\* if m.loki != nil { ... m.loki.Push(entry, provider) }
CallsPush_OnSuccessOnly(err, present) == present /\ err = NoErr
CallsPush(err, present) == present

\* return err
MultiWriterReturn_PushError(err, dropped) == IF err = NoErr /\ dropped THEN "dropped" ELSE err
MultiWriterReturn(err, dropped) == err

InitWriterClose ==
    /\ mwClose = "idle"
    /\ fileClosed = FALSE
    /\ mwCloseRet = "none"

InitWriter ==
    /\ lokiPresent \in BOOLEAN
    /\ mwCalls = 0
    /\ mwLast = [method |-> "none", fileErr |-> NoErr, ret |-> NoErr, pushed |-> FALSE]
    /\ InitWriterClose

idleWriter ==
    /\ lokiPresent = TRUE
    /\ mwCalls = 0
    /\ mwLast = [method |-> "none", fileErr |-> NoErr, ret |-> NoErr, pushed |-> FALSE]
    /\ InitWriterClose

\* the common shape of the four log methods: err := m.file.LogX(...); the
\* push of the entry map (always marshalable); return err
MultiWriterLog(method, sid, entry, err) ==
    /\ mwCalls < MaxLog
    /\ ~fileClosed
    /\ mwCalls' = mwCalls + 1
    /\ journal' = writeEntry(journal, sid, entry, err)
    /\ IF CallsPush(err, lokiPresent) THEN PushEntry(TRUE) ELSE UNCHANGED exVars
    /\ mwLast' = [method |-> method, fileErr |-> err,
                  ret |-> MultiWriterReturn(err, pushCalls' # pushCalls /\ ~lastPush'.enqueued),
                  pushed |-> pushCalls' # pushCalls]
    /\ UNCHANGED <<lokiPresent, mcVars, bkVars, seVars, restVars>>

LogSessionStart(sid, err) ==
    MultiWriterLog("session_start", sid, [type |-> "session_start", seq |-> 0], err)

LogRequest(sid, seq, err) ==
    MultiWriterLog("request", sid, [type |-> "request", seq |-> seq], err)

LogResponse(sid, seq, err) ==
    MultiWriterLog("response", sid, [type |-> "response", seq |-> seq], err)

LogFork(sid, err) ==
    MultiWriterLog("fork", sid, [type |-> "fork", seq |-> 0], err)

\* MultiWriter.Close: m.file.Close() is called whatever m.loki.Close() returned
ClosesFile_OnlyIfLokiOk(lokiErr) == lokiErr = "nil"
ClosesFile(lokiErr) == TRUE

\* MultiWriter.Close: the error returned, the exporter's first
MultiWriterCloseReturn(lokiErr, fileErr) == IF lokiErr # "nil" THEN lokiErr ELSE fileErr

\* MultiWriter.Close is called
MultiWriterCloseEnter ==
    /\ mwClose = "idle"
    /\ mwClose' = "entered"
    /\ UNCHANGED <<lokiPresent, mwCalls, mwLast, fileClosed, mwCloseRet>>
    /\ UNCHANGED <<exVars, bkVars, journal, seVars, restVars>>

\* MultiWriter.Close: if m.loki != nil { lokiErr := m.loki.Close() ... }
MultiWriterCloseLoki ==
    /\ lokiPresent
    /\ mwClose = "entered"
    /\ CloseCall(WriterCloser)

\* MultiWriter.Close: once m.loki.Close() has returned (or without an
\* exporter), fileErr := m.file.Close(), and the return
MultiWriterCloseFile(fileErr) ==
    /\ mwClose = "entered"
    /\ lokiPresent => cpc[WriterCloser] = "returned"
    /\ LET lokiErr == IF lokiPresent THEN cres[WriterCloser] ELSE "nil" IN
       /\ fileClosed' = ClosesFile(lokiErr)
       /\ mwCloseRet' = IF ClosesFile(lokiErr)
                        THEN MultiWriterCloseReturn(lokiErr, fileErr)
                        ELSE lokiErr
    /\ mwClose' = "done"
    /\ UNCHANGED <<lokiPresent, mwCalls, mwLast>>
    /\ UNCHANGED <<exVars, bkVars, journal, seVars, restVars>>

\* the sessions and sequence numbers the log methods are called with
WriterSessions == {1}
WriterSeqs == {1}

NextWriter ==
    \/ \E sid \in WriterSessions, err \in {NoErr} \cup JournalErrors :
          LogSessionStart(sid, err)
    \/ \E sid \in WriterSessions, seq \in WriterSeqs, err \in {NoErr} \cup JournalErrors :
          LogRequest(sid, seq, err)
    \/ \E sid \in WriterSessions, seq \in WriterSeqs, err \in {NoErr} \cup JournalErrors :
          LogResponse(sid, seq, err)
    \/ \E sid \in WriterSessions, err \in {NoErr} \cup JournalErrors :
          LogFork(sid, err)
    \/ lokiPresent /\ WorkerRecv
    \/ lokiPresent /\ WorkerTick
    \/ lokiPresent /\ WorkerClose
    \/ lokiPresent /\ WorkerDrain
    \/ lokiPresent /\ \E sendOk \in BOOLEAN : WorkerSend(sendOk)
    \/ lokiPresent /\ WorkerSleep
    \/ MultiWriterCloseEnter
    \/ MultiWriterCloseLoki
    \/ lokiPresent /\ CloseClean(WriterCloser)
    \/ lokiPresent /\ CloseTimeout(WriterCloser)
    \/ \E fileErr \in {NoErr} \cup JournalErrors : MultiWriterCloseFile(fileErr)

(***************************************************************************)
(* SessionDB: the sessions table, as the session manager uses it           *)
(***************************************************************************)
NoClientSessionID == ""
ClientSessionIDs == {"A", "B"}
\* the empty session id
NoSession == 0

\* sessions(id PK, client_session_id, ..., last_seq, ...)
InsertSession(d, sid, cid) ==
    [s \in DOMAIN d \cup {sid} |->
        IF s = sid THEN [clientSessionID |-> cid, lastSeq |-> 1] ELSE d[s]]

\* returns session id or empty
FindByClientSessionID(d, cid) ==
    IF \E s \in DOMAIN d : d[s].clientSessionID = cid
    THEN CHOOSE s \in DOMAIN d : d[s].clientSessionID = cid
    ELSE NoSession

\* returns (client_id, provider, upstream, last_seq): the last_seq
GetSessionWithClientID(d, sid) == d[sid].lastSeq

UpdateSessionSeq(d, sid, seq) == [d EXCEPT ![sid].lastSeq = seq]

CreateSession(d, sid) == InsertSession(d, sid, NoClientSessionID)

CreateSessionWithClientID(d, sid, cid) == InsertSession(d, sid, cid)

(***************************************************************************)
(* SessionManager. Each function takes the table d and the count n of      *)
(* generated ids, and the step fail at which the database or the file      *)
(* system fails ("none": nowhere); it returns the new table and count with *)
(* the function's results (sessionID, seq, isNew, err).                    *)
(***************************************************************************)
DbFailures == {"none", "find", "get", "update", "mkdir", "create"}

\* the n-th call of generateSessionID: timestamp and random suffix, taken to
\* be an id that no earlier call returned
generateSessionID(n) == n + 1

\* return "", 0, false, err
SessionError(d, n) ==
    [db |-> d, next |-> n, sid |-> NoSession, seq |-> 0, isNew |-> FALSE, err |-> TRUE]

SessionResult(d, n, sid, seq, isNew) ==
    [db |-> d, next |-> n, sid |-> sid, seq |-> seq, isNew |-> isNew, err |-> FALSE]

createNewSession(d, n, fail) ==
    LET sessionID == generateSessionID(n) IN
    IF fail \in {"mkdir", "create"}
    THEN SessionError(d, n + 1)
    ELSE SessionResult(CreateSession(d, sessionID), n + 1, sessionID, 1, TRUE)

\* os.MkdirAll, then sm.db.CreateSessionWithClientID: either failing returns
\* before a record is inserted
createNewSessionWithClientID_CreateFirst(d, n, clientSessionID, fail) ==
    LET sessionID == generateSessionID(n) IN
    IF fail = "create" THEN SessionError(d, n + 1)
    ELSE IF fail = "mkdir"
         THEN SessionError(CreateSessionWithClientID(d, sessionID, clientSessionID), n + 1)
         ELSE SessionResult(CreateSessionWithClientID(d, sessionID, clientSessionID),
                            n + 1, sessionID, 1, TRUE)
createNewSessionWithClientID(d, n, clientSessionID, fail) ==
    LET sessionID == generateSessionID(n) IN
    IF fail \in {"mkdir", "create"}
    THEN SessionError(d, n + 1)
    ELSE SessionResult(CreateSessionWithClientID(d, sessionID, clientSessionID),
                       n + 1, sessionID, 1, TRUE)

getOrCreateByClientSessionID_NoLookup(d, n, clientSessionID, fail) ==
    createNewSessionWithClientID(d, n, clientSessionID, fail)
getOrCreateByClientSessionID(d, n, clientSessionID, fail) ==
    IF fail = "find" THEN SessionError(d, n)
    ELSE LET existingSession == FindByClientSessionID(d, clientSessionID) IN
         IF existingSession # NoSession
         THEN IF fail = "get" THEN SessionError(d, n)
              ELSE LET nextSeq == GetSessionWithClientID(d, existingSession) + 1 IN
                   IF fail = "update" THEN SessionError(d, n)
                   ELSE SessionResult(UpdateSessionSeq(d, existingSession, nextSeq),
                                      n, existingSession, nextSeq, FALSE)
         ELSE createNewSessionWithClientID(d, n, clientSessionID, fail)

(***************************************************************************)
(* Requests                                                                *)
(***************************************************************************)
Handlers == {"h1", "h2"}
\* the messages of a request body
Bodies == {"hello", "bye"}
\* requests of the conversation endpoint, with and without client session
\* id, and a request of another path
Requests ==
    [cid : ClientSessionIDs, body : {"hello"}, path : {"/v1/messages"}]
        \cup [cid : {NoClientSessionID}, body : Bodies, path : {"/v1/messages"}]
        \cup [cid : {NoClientSessionID}, body : {"hello"}, path : {"/v1/models"}]
NoRequest == [cid |-> NoClientSessionID, body |-> "", path |-> ""]

isConversationEndpoint(path) == path = "/v1/messages"

\* the portion of metadata.user_id after "_session_", empty if there is none
ExtractClientSessionID(req) == req.cid

\* sm.mu is held from entry to return: the call is one step
GetOrCreateSession_ByBody(d, n, req, fail) ==
    getOrCreateByClientSessionID(d, n, IF req.cid # NoClientSessionID THEN req.cid ELSE req.body, fail)
GetOrCreateSession(d, n, req, fail) ==
    LET clientSessionID == ExtractClientSessionID(req) IN
    IF clientSessionID # NoClientSessionID
    THEN getOrCreateByClientSessionID(d, n, clientSessionID, fail)
    ELSE createNewSession(d, n, fail)

(***************************************************************************)
(* Proxy.ServeHTTP                                                         *)
(***************************************************************************)
InitSession ==
    /\ db = [s \in {} |-> [clientSessionID |-> NoClientSessionID, lastSeq |-> 1]]
    /\ nextSid = 0
    /\ hpc = [h \in Handlers |-> "idle"]
    /\ hreq = [h \in Handlers |-> NoRequest]
    /\ hsid = [h \in Handlers |-> NoSession]
    /\ hseq = [h \in Handlers |-> 0]
    /\ reqCount = 0
    /\ assigned = <<>>
    /\ faults = 0
    /\ lost = {}

notSession == <<exVars, bkVars, mwVars, restVars>>

\* a step in which something fails, or not
Fault(failed) ==
    /\ failed => faults < MaxFaults
    /\ faults' = IF failed THEN faults + 1 ELSE faults

\* a Logger call of the handler: the entry is appended, or the write fails
\* and the handler goes on
HandlerWrite(sid, entry, err) ==
    /\ journal' = writeEntry(journal, sid, entry, err)
    /\ lost' = IF err # NoErr THEN lost \cup {<<entry.type, sid, entry.seq>>} ELSE lost

\* if seq == 1 { LogSessionStart }, then LogRequest: the first log call
AfterSession_AlwaysStart(seq) == "start"
AfterSession(seq) == IF seq = 1 THEN "start" ELSE "request"

\* the entry of LogRequest
RequestEntry_NoSeq(seq) == [type |-> "request", seq |-> 0]
RequestEntry(seq) == [type |-> "request", seq |-> seq]

\* net/http starts the handler goroutine; ParseProxyURL and io.ReadAll
ServeReceive(h, req) ==
    /\ hpc[h] = "idle"
    /\ reqCount < MaxReq
    /\ reqCount' = reqCount + 1
    /\ hreq' = [hreq EXCEPT ![h] = req]
    /\ hpc' = [hpc EXCEPT ![h] = "session"]
    /\ UNCHANGED <<db, nextSid, hsid, hseq, assigned, faults, lost, journal, notSession>>

\* "Get or create session": the session manager's answer or, on its error
\* and off the conversation endpoints, generateSessionID() and seq = 1
ServeSession(h, fail) ==
    /\ hpc[h] = "session"
    /\ LET tracked == isConversationEndpoint(hreq[h].path)
           r == GetOrCreateSession(db, nextSid, hreq[h], fail)
           fallback == ~tracked \/ r.err
           n == IF tracked THEN r.next ELSE nextSid
           sessionID == IF fallback THEN generateSessionID(n) ELSE r.sid
           seq == IF fallback THEN 1 ELSE r.seq
       IN /\ Fault(tracked /\ r.err)
          /\ db' = IF tracked THEN r.db ELSE db
          /\ nextSid' = IF fallback THEN n + 1 ELSE n
          /\ hsid' = [hsid EXCEPT ![h] = sessionID]
          /\ hseq' = [hseq EXCEPT ![h] = seq]
          /\ assigned' = Append(assigned,
                 [cid |-> hreq[h].cid, body |-> hreq[h].body, tracked |-> tracked,
                  err |-> tracked /\ r.err, isNew |-> tracked /\ r.isNew,
                  sid |-> sessionID, seq |-> seq])
          /\ hpc' = [hpc EXCEPT ![h] = AfterSession(seq)]
    /\ UNCHANGED <<hreq, reqCount, lost, journal, notSession>>

\* if seq == 1 { p.logger.LogSessionStart(...) }: the result is not looked at
ServeLogSessionStart(h, err) ==
    /\ hpc[h] = "start"
    /\ HandlerWrite(hsid[h], [type |-> "session_start", seq |-> 0], err)
    /\ Fault(err # NoErr)
    /\ hpc' = [hpc EXCEPT ![h] = "request"]
    /\ UNCHANGED <<db, nextSid, hreq, hsid, hseq, reqCount, assigned, notSession>>

\* p.logger.LogRequest(sessionID, provider, seq, ...): the result is not
\* looked at
ServeLogRequest(h, err) ==
    /\ hpc[h] = "request"
    /\ HandlerWrite(hsid[h], RequestEntry(hseq[h]), err)
    /\ Fault(err # NoErr)
    /\ hpc' = [hpc EXCEPT ![h] = "upstream"]
    /\ UNCHANGED <<db, nextSid, hreq, hsid, hseq, reqCount, assigned, notSession>>

ServeReturn(h) ==
    /\ hpc' = [hpc EXCEPT ![h] = "idle"]
    /\ hreq' = [hreq EXCEPT ![h] = NoRequest]
    /\ hsid' = [hsid EXCEPT ![h] = NoSession]
    /\ hseq' = [hseq EXCEPT ![h] = 0]

\* p.client.Do(proxyReq): on its error 502 and return, nothing is logged
ServeForward(h, upstreamOk) ==
    /\ hpc[h] = "upstream"
    /\ IF upstreamOk
       THEN /\ hpc' = [hpc EXCEPT ![h] = "response"]
            /\ UNCHANGED <<hreq, hsid, hseq>>
       ELSE ServeReturn(h)
    /\ Fault(~upstreamOk)
    /\ UNCHANGED <<db, nextSid, reqCount, assigned, lost, journal, notSession>>

\* p.logger.LogResponse(sessionID, provider, seq, ...), then the response
\* is written to the client
ServeLogResponse(h, err) ==
    /\ hpc[h] = "response"
    /\ HandlerWrite(hsid[h], [type |-> "response", seq |-> hseq[h]], err)
    /\ Fault(err # NoErr)
    /\ ServeReturn(h)
    /\ UNCHANGED <<db, nextSid, reqCount, assigned, notSession>>

NextSession ==
    \/ \E h \in Handlers, req \in Requests : ServeReceive(h, req)
    \/ \E h \in Handlers, fail \in DbFailures : ServeSession(h, fail)
    \/ \E h \in Handlers, err \in {NoErr} \cup JournalErrors : ServeLogSessionStart(h, err)
    \/ \E h \in Handlers, err \in {NoErr} \cup JournalErrors : ServeLogRequest(h, err)
    \/ \E h \in Handlers, upstreamOk \in BOOLEAN : ServeForward(h, upstreamOk)
    \/ \E h \in Handlers, err \in {NoErr} \cup JournalErrors : ServeLogResponse(h, err)

(***************************************************************************)
(* Proxy.ServeHTTP from the upstream call on, and streamResponse. A body   *)
(* is a sequence of bytes; a header map gives each name its values.        *)
(***************************************************************************)
LF == "\n"
Bytes == {"a", LF}

RECURSIVE SeqsUpTo(_, _)
SeqsUpTo(S, n) ==
    IF n = 0 THEN {<<>>}
    ELSE LET shorter == SeqsUpTo(S, n - 1) IN
         shorter \cup {Append(b, x) : b \in shorter, x \in S}

Bodies_Upstream == SeqsUpTo(Bytes, MaxBody)

\* Content-Type values, as the sequence of their parts
ContentTypes ==
    {<<"application/json">>, <<"text/event-stream">>, <<"text/event-stream", "; charset=utf-8">>}

HasPrefix(s, prefix) == Len(s) >= Len(prefix) /\ SubSeq(s, 1, Len(prefix)) = prefix

isStreamingResponse(resp) == HasPrefix(resp.headers["Content-Type"][1], <<"text/event-stream">>)

HopByHop == {"Connection"}

\* the header maps of the upstream: Content-Type, with or without a
\* hop-by-hop header and a header of two values
HeadersWith(ct, conn, cookie) ==
    [k \in {"Content-Type"} \cup (IF conn THEN {"Connection"} ELSE {})
                            \cup (IF cookie THEN {"Set-Cookie"} ELSE {}) |->
        CASE k = "Content-Type" -> <<ct>>
          [] k = "Connection" -> <<"keep-alive">>
          [] k = "Set-Cookie" -> <<"a=1", "b=2">>]

UpstreamResponses ==
    {[status |-> st, headers |-> HeadersWith(ct, conn, cookie), body |-> b] :
        st \in {200, 429}, ct \in ContentTypes, conn \in BOOLEAN, cookie \in BOOLEAN,
        b \in Bodies_Upstream}

NoHeaders == [k \in {} |-> <<>>]

ValuesOf(h, k) == IF k \in DOMAIN h THEN h[k] ELSE <<>>

\* for key, values := range src { for _, value := range values { dst.Add(key, value) } }
copyHeaders_FirstValue(dst, src) ==
    [k \in DOMAIN dst \cup DOMAIN src |->
        ValuesOf(dst, k) \o (IF k \in DOMAIN src THEN <<src[k][1]>> ELSE <<>>)]
copyHeaders(dst, src) ==
    [k \in DOMAIN dst \cup DOMAIN src |-> ValuesOf(dst, k) \o ValuesOf(src, k)]

\* http.Error(w, msg, code): the headers and the body of an error reply
ErrorHeaders == [k \in {"Content-Type"} |-> <<<<"text/plain; charset=utf-8">>>>]
ErrorBody == <<"e", LF>>
StatusBadGateway == 502

\* index of the first delimiter of b after position from, 0 if there is none
\* up to position upto
FirstLF(b, from, upto) ==
    IF \E i \in (from + 1)..upto : b[i] = LF
    THEN CHOOSE i \in (from + 1)..upto : b[i] = LF /\ \A j \in (from + 1)..(i - 1) : b[j] # LF
    ELSE 0

\* reader.ReadBytes('\n') on the bytes that arrive: the line with its
\* delimiter, or what is left with the error
ReadBytes_NoDelimiter(b, from, upto) ==
    LET i == FirstLF(b, from, upto) IN
    IF i # 0 THEN [line |-> SubSeq(b, from + 1, i - 1), next |-> i, err |-> FALSE]
    ELSE [line |-> SubSeq(b, from + 1, upto), next |-> upto, err |-> TRUE]
ReadBytes(b, from, upto) ==
    LET i == FirstLF(b, from, upto) IN
    IF i # 0 THEN [line |-> SubSeq(b, from + 1, i), next |-> i, err |-> FALSE]
    ELSE [line |-> SubSeq(b, from + 1, upto), next |-> upto, err |-> TRUE]

\* the session and the seq of the request followed
ProxySession == 1
ProxySeq == 1

InitProxy ==
    /\ upErr \in BOOLEAN
    /\ upResp \in UpstreamResponses
    /\ upCut \in 0..Len(upResp.body)
    /\ pxpc = "request"
    /\ pxRead = 0
    /\ respBody = <<>>
    /\ cliStatus = 0
    /\ cliHeaders = NoHeaders
    /\ cliBody = <<>>
    /\ cliChunks = <<>>
    /\ cliGone = FALSE

idleProxy ==
    /\ upErr = FALSE
    /\ upResp = [status |-> 200, headers |-> HeadersWith(<<"application/json">>, FALSE, FALSE),
                 body |-> <<>>]
    /\ upCut = 0
    /\ pxpc = "request"
    /\ pxRead = 0
    /\ respBody = <<>>
    /\ cliStatus = 0
    /\ cliHeaders = NoHeaders
    /\ cliBody = <<>>
    /\ cliChunks = <<>>
    /\ cliGone = FALSE

notProxy == <<exVars, bkVars, mwVars, seVars, bdVars, svVars, ptVars, moreVars>>
upstreamVars == <<upErr, upResp, upCut>>
clientVars == <<cliStatus, cliHeaders, cliBody, cliChunks, cliGone>>

\* p.logger.LogSessionStart and p.logger.LogRequest
ProxyLogRequest ==
    /\ pxpc = "request"
    /\ journal' = writeEntry(
           writeEntry(journal, ProxySession, [type |-> "session_start", seq |-> 0], NoErr),
           ProxySession, [type |-> "request", seq |-> ProxySeq], NoErr)
    /\ pxpc' = "do"
    /\ UNCHANGED <<upstreamVars, pxRead, respBody, clientVars, notProxy>>

\* resp, err := p.client.Do(proxyReq); on err http.Error(502) and return
ProxyDo ==
    /\ pxpc = "do"
    /\ IF upErr
       THEN /\ cliStatus' = StatusBadGateway
            /\ cliHeaders' = ErrorHeaders
            /\ cliBody' = ErrorBody
            /\ pxpc' = "done"
       ELSE /\ pxpc' = IF isStreamingResponse(upResp) THEN "stream" ELSE "read"
            /\ UNCHANGED <<cliStatus, cliHeaders, cliBody>>
    /\ UNCHANGED <<upstreamVars, pxRead, respBody, cliChunks, cliGone, journal, notProxy>>

\* streamResponse: copyHeaders(w.Header(), resp.Header); w.WriteHeader(resp.StatusCode)
StreamHeaders ==
    /\ pxpc = "stream"
    /\ cliHeaders' = copyHeaders(cliHeaders, upResp.headers)
    /\ cliStatus' = upResp.status
    /\ pxpc' = "line"
    /\ UNCHANGED <<upstreamVars, pxRead, respBody, cliBody, cliChunks, cliGone, journal, notProxy>>

\* streamResponse: one turn of the loop; sw.Write records the chunk and then
\* writes to the client, and its result is dropped; at io.EOF the response is
\* logged with its chunks, at another error the function returns
StreamLine(logErr) ==
    /\ pxpc = "line"
    /\ LET r == ReadBytes(upResp.body, pxRead, upCut)
           eof == r.err /\ upCut = Len(upResp.body)
       IN /\ pxRead' = r.next
          /\ IF Len(r.line) > 0
             THEN /\ cliBody' = IF cliGone THEN cliBody ELSE cliBody \o r.line
                  /\ cliChunks' = Append(cliChunks, r.line)
             ELSE UNCHANGED <<cliBody, cliChunks>>
          /\ pxpc' = IF r.err THEN "done" ELSE "line"
          /\ journal' = IF eof
                        THEN writeEntry(journal, ProxySession,
                                 [type |-> "response", seq |-> ProxySeq,
                                  status |-> upResp.status], logErr)
                        ELSE journal
          /\ (logErr # NoErr => eof)
    /\ UNCHANGED <<upstreamVars, respBody, cliStatus, cliHeaders, cliGone, notProxy>>

\* respBody, _ := io.ReadAll(resp.Body)
ProxyReadAll ==
    /\ pxpc = "read"
    /\ respBody' = SubSeq(upResp.body, 1, upCut)
    /\ pxRead' = upCut
    /\ pxpc' = "log"
    /\ UNCHANGED <<upstreamVars, clientVars, journal, notProxy>>

\* p.logger.LogResponse(sessionID, provider, seq, resp.StatusCode, ...)
ProxyLogResponse(logErr) ==
    /\ pxpc = "log"
    /\ journal' = writeEntry(journal, ProxySession,
                      [type |-> "response", seq |-> ProxySeq, status |-> upResp.status],
                      logErr)
    /\ pxpc' = "reply"
    /\ UNCHANGED <<upstreamVars, pxRead, respBody, clientVars, notProxy>>

\* copyHeaders(w.Header(), resp.Header); w.WriteHeader(resp.StatusCode);
\* w.Write(respBody)
ProxyReply ==
    /\ pxpc = "reply"
    /\ cliHeaders' = copyHeaders(cliHeaders, upResp.headers)
    /\ cliStatus' = upResp.status
    /\ cliBody' = cliBody \o respBody
    /\ pxpc' = "done"
    /\ UNCHANGED <<upstreamVars, pxRead, respBody, cliChunks, cliGone, journal, notProxy>>

\* the client closes its connection while the response is streamed: the
\* context of the request, which the upstream request was built with, is
\* cancelled, and the read of resp.Body fails once the bytes that had already
\* arrived are used up
ClientDisconnect ==
    /\ pxpc = "line"
    /\ ~cliGone
    /\ cliGone' = TRUE
    /\ \E cut \in pxRead..upCut : upCut' = cut
    /\ UNCHANGED <<upErr, upResp, pxpc, pxRead, respBody, cliStatus, cliHeaders, cliBody,
                   cliChunks, journal, notProxy>>

NextProxy ==
    \/ ProxyLogRequest
    \/ ProxyDo
    \/ StreamHeaders
    \/ \E logErr \in {NoErr} \cup JournalErrors : StreamLine(logErr)
    \/ ProxyReadAll
    \/ \E logErr \in {NoErr} \cup JournalErrors : ProxyLogResponse(logErr)
    \/ ProxyReply

(***************************************************************************)
(* serveBedrock: the semaphore around the dispatch to Bedrock              *)
(***************************************************************************)
BedrockRequests == {"b1", "b2", "b3", "b4"}

\* semaphore <- struct{}{} goes through while the channel has room
CanAcquire_Unbounded(n) == TRUE
CanAcquire(n) == n < bedrockMaxConcurrent

InitBedrock ==
    /\ semaphore = 0
    /\ bpc = [b \in BedrockRequests |-> "idle"]
    /\ bstatus = [b \in BedrockRequests |-> 0]

notBedrock == <<exVars, bkVars, journal, mwVars, seVars, pxVars, svVars, ptVars, moreVars>>

\* a request for /model/{model_id}/invoke arrives and reaches the semaphore
BedrockArrive(b) ==
    /\ bpc[b] = "idle"
    /\ bpc' = [bpc EXCEPT ![b] = "acquire"]
    /\ bstatus' = [bstatus EXCEPT ![b] = 0]
    /\ UNCHANGED <<semaphore, notBedrock>>

\* the permit is taken and the signed request is dispatched
BedrockAcquire(b) ==
    /\ bpc[b] = "acquire"
    /\ CanAcquire(semaphore)
    /\ semaphore' = semaphore + 1
    /\ bpc' = [bpc EXCEPT ![b] = "dispatched"]
    /\ UNCHANGED <<bstatus, notBedrock>>

\* release on completion: the permits taken once a call has ended with status
PermitsAfter_OnSuccess(n, status) == IF status = 200 THEN n - 1 ELSE n
PermitsAfter(n, status) == n - 1

\* what the client of a dispatched request can get: the upstream's 200, a
\* non-200 status of the upstream forwarded as it is, 502 when the call fails
BedrockStatuses == {200, 429, StatusBadGateway}

\* the upstream call completes, well or not, and the permit is released
BedrockComplete(b, status) ==
    /\ bpc[b] = "dispatched"
    /\ semaphore' = PermitsAfter(semaphore, status)
    /\ bstatus' = [bstatus EXCEPT ![b] = status]
    /\ bpc' = [bpc EXCEPT ![b] = "idle"]
    /\ UNCHANGED notBedrock

NextBedrock ==
    \/ \E b \in BedrockRequests : BedrockArrive(b)
    \/ \E b \in BedrockRequests : BedrockAcquire(b)
    \/ \E b \in BedrockRequests, status \in BedrockStatuses : BedrockComplete(b, status)

\* every upstream call ends (the HTTP client has a timeout), and a request
\* blocked on the semaphore is served when a permit is free: the senders
\* blocked on a Go channel are queued first come, first served
FairBedrock ==
    /\ \A b \in BedrockRequests :
          WF_vars(\E status \in BedrockStatuses : BedrockComplete(b, status))
    /\ \A b \in BedrockRequests : SF_vars(BedrockAcquire(b))

(***************************************************************************)
(* main: the server and its shutdown goroutine. http.ListenAndServe serves *)
(* every request in a goroutine running ServeHTTP; the shutdown goroutine  *)
(* waits for the signal and calls srv.Close(), that is Logger.Close.       *)
(***************************************************************************)
InitServer ==
    /\ signalled = FALSE
    /\ loggerClosed = FALSE

notServer == <<exVars, bkVars, journal, mwVars, seVars, pxVars, bdVars, ptVars, moreVars>>

\* the positions of ServeHTTP at which the next statement is a log method
LogPositions == {"start", "request", "response"}

\* signal.NotifyContext: SIGINT or SIGTERM cancels ctx
Signal ==
    /\ ~signalled
    /\ signalled' = TRUE
    /\ UNCHANGED <<loggerClosed, notServer>>

\* go func() { <-ctx.Done(); srv.Close() }(): Logger.Close closes the files
\* and sets l.files = nil
ServerClose ==
    /\ signalled
    /\ ~loggerClosed
    /\ loggerClosed' = TRUE
    /\ UNCHANGED <<signalled, notServer>>

\* a log method called after Logger.Close: getFile returns the error of
\* os.OpenFile and the handler goes on, or it assigns into the nil map l.files
\* and the panic ends the handler; nothing is written
ServeLogClosed(h, panics) ==
    /\ hpc[h] \in LogPositions
    /\ loggerClosed
    /\ LET type == IF hpc[h] = "start" THEN "session_start" ELSE hpc[h]
           seq == IF hpc[h] = "start" THEN 0 ELSE hseq[h] IN
       lost' = lost \cup {<<type, hsid[h], seq>>}
    /\ IF panics \/ hpc[h] = "response"
       THEN ServeReturn(h)
       ELSE /\ hpc' = [hpc EXCEPT ![h] = IF hpc[h] = "start" THEN "request" ELSE "upstream"]
            /\ UNCHANGED <<hreq, hsid, hseq>>
    /\ UNCHANGED <<db, nextSid, reqCount, assigned, faults, journal, notSession>>

\* the log methods of a handler while the Logger is open
ServerLogSessionStart(h) == ~loggerClosed /\ ServeLogSessionStart(h, NoErr)
ServerLogRequest(h) == ~loggerClosed /\ ServeLogRequest(h, NoErr)
ServerLogResponse(h) == ~loggerClosed /\ ServeLogResponse(h, NoErr)

\* http.ListenAndServe(addr, srv) goes on accepting and serving whatever the
\* shutdown goroutine does; here every request is served without a failure of
\* the database, of the journal or of the upstream
NextServer ==
    \/ Signal
    \/ ServerClose
    \/ \E h \in Handlers, req \in Requests : ServeReceive(h, req)
    \/ \E h \in Handlers : ServeSession(h, "none")
    \/ \E h \in Handlers : ServerLogSessionStart(h)
    \/ \E h \in Handlers : ServerLogRequest(h)
    \/ \E h \in Handlers : ServeForward(h, TRUE)
    \/ \E h \in Handlers : ServerLogResponse(h)
    \/ \E h \in Handlers, panics \in BOOLEAN : ServeLogClosed(h, panics)

(***************************************************************************)
(* ComputePatterns (session.go)                                            *)
(***************************************************************************)
\* number of ComputePatterns calls explored
MaxTurns == 4

\* firstToolName: "" when the response has no tool_use
ToolNames == {"", "bash", "read"}

\* isRetry = (firstToolName == state.LastToolName) && state.LastWasError
IsRetry_SameTool(firstToolName, lastToolName, lastWasError) ==
    firstToolName = lastToolName
IsRetry(firstToolName, lastToolName, lastWasError) ==
    firstToolName = lastToolName /\ lastWasError

\* if firstToolName == state.LastToolName { state.ToolStreak++ } else { state.ToolStreak = 1 }
NextToolStreak_Always(streak, firstToolName, lastToolName) == streak + 1
NextToolStreak(streak, firstToolName, lastToolName) ==
    IF firstToolName = lastToolName THEN streak + 1 ELSE 1

\* if isRetry { state.RetryCount++ } else { state.RetryCount = 0 }
NextRetryCount_Kept(count, isRetry) == IF isRetry THEN count + 1 ELSE count
NextRetryCount(count, isRetry) == IF isRetry THEN count + 1 ELSE 0

\* ComputePatterns(state, firstToolName): the state it leaves and its result
ComputePatterns_ClearsError(state, firstToolName) ==
    IF firstToolName = ""
    THEN [state |-> [state EXCEPT !.ToolStreak = 0, !.RetryCount = 0], ret |-> FALSE]
    ELSE LET isRetry == IsRetry(firstToolName, state.LastToolName, state.LastWasError) IN
         [state |-> [state EXCEPT
                        !.ToolStreak = NextToolStreak(@, firstToolName, state.LastToolName),
                        !.RetryCount = NextRetryCount(@, isRetry),
                        !.LastToolName = firstToolName,
                        !.LastWasError = FALSE],
          ret |-> isRetry]
ComputePatterns(state, firstToolName) ==
    IF firstToolName = ""
    THEN [state |-> [state EXCEPT !.ToolStreak = 0, !.RetryCount = 0], ret |-> FALSE]
    ELSE LET isRetry == IsRetry(firstToolName, state.LastToolName, state.LastWasError) IN
         [state |-> [state EXCEPT
                        !.ToolStreak = NextToolStreak(@, firstToolName, state.LastToolName),
                        !.RetryCount = NextRetryCount(@, isRetry),
                        !.LastToolName = firstToolName],
          ret |-> isRetry]

\* the default PatternState of LoadPatternState
NewPatternState ==
    [ToolStreak |-> 0, RetryCount |-> 0, LastToolName |-> "", LastWasError |-> FALSE]

InitPatterns ==
    /\ ptState = NewPatternState
    /\ ptCalls = 0
    /\ ptLast = [first |-> "", found |-> NewPatternState, ret |-> FALSE, run |-> 0]

notPatterns == <<exVars, bkVars, journal, mwVars, seVars, pxVars, bdVars, svVars, moreVars>>

\* a response is processed: ComputePatterns on the session's state
PatternsCall(firstToolName) ==
    /\ ptCalls < MaxTurns
    /\ ptCalls' = ptCalls + 1
    /\ LET r == ComputePatterns(ptState, firstToolName) IN
       /\ ptState' = r.state
       /\ ptLast' = [first |-> firstToolName, found |-> ptState, ret |-> r.ret,
                     run |-> IF ptCalls > 0 /\ firstToolName = ptLast.first
                             THEN ptLast.run + 1 ELSE 1]
    /\ UNCHANGED notPatterns

\* the request flow sets LastWasError from the tool_results of a request
SetLastWasError(wasError) ==
    /\ ptCalls < MaxTurns
    /\ ptState.LastWasError # wasError
    /\ ptState' = [ptState EXCEPT !.LastWasError = wasError]
    /\ UNCHANGED <<ptCalls, ptLast, notPatterns>>

NextPatterns ==
    \/ \E firstToolName \in ToolNames : PatternsCall(firstToolName)
    \/ \E wasError \in BOOLEAN : SetLastWasError(wasError)

(***************************************************************************)
(* The event engine: what the request flow does with one turn (a request   *)
(* and its response) of a session, on the PatternState of the session      *)
(***************************************************************************)
\* number of turns explored
MaxEngTurns == 3

\* a tool_use_id no response has issued
UnknownId == 0

\* the tool_use blocks of a response, by name, in order
ToolUses == {<<>>, <<"bash">>, <<"bash", "read">>, <<"read", "bash">>}

\* the tool_result blocks of a request: is_error by tool_use_id, for up to two
\* ids among the pending ones and the unknown one
ResultBatches(pending) ==
    UNION {[R -> BOOLEAN] :
             R \in {X \in SUBSET (DOMAIN pending \cup {UnknownId}) : Cardinality(X) <= 2}}

\* LoadPatternState for a session without stored state
NewEngineState ==
    [TurnCount |-> 0, SessionToolCount |-> 0, ToolStreak |-> 0, RetryCount |-> 0,
     LastToolName |-> "", LastWasError |-> FALSE, PendingToolIDs |-> [i \in {} |-> ""]]

\* ClearMatchedToolID: removes the id from pending_tool_ids and returns the
\* tool name, empty if the id is not there
ClearMatchedToolID_KeepsMapping(pending, id) ==
    [pending |-> pending,
     name |-> IF id \in DOMAIN pending THEN pending[id] ELSE ""]
ClearMatchedToolID(pending, id) ==
    [pending |-> [i \in DOMAIN pending \ {id} |-> pending[i]],
     name |-> IF id \in DOMAIN pending THEN pending[id] ELSE ""]

\* the fold of the tool results: ClearMatchedToolID for each of them
RECURSIVE ClearAll(_, _)
ClearAll(pending, ids) ==
    IF ids = {} THEN pending
    ELSE LET id == CHOOSE i \in ids : TRUE IN
         ClearAll(ClearMatchedToolID(pending, id).pending, ids \ {id})

\* any_error: the OR of the is_error flags of the request's tool results
AnyError_All(results) == \A i \in DOMAIN results : results[i]
AnyError(results) == \E i \in DOMAIN results : results[i]

\* error_recovered of turn_start: the LastWasError the turn found, read before
\* the fold overwrites it
ErrorRecovered_AfterFold(found, folded) == folded
ErrorRecovered(found, folded) == found

\* the first tool_use of the response, "" without one
FirstToolName(uses) == IF uses = <<>> THEN "" ELSE uses[1]

NoTurn ==
    [results |-> {}, resultEvents |-> {}, anyError |-> FALSE, found |-> FALSE,
     errorRecovered |-> FALSE, turnDepth |-> 0, uses |-> <<>>, isRetry |-> FALSE,
     openBefore |-> [i \in {} |-> ""], toolsBefore |-> [prev |-> <<>>, lastWith |-> <<>>],
     prevError |-> FALSE]

InitEngine ==
    /\ egState = NewEngineState
    /\ egpc = "idle"
    /\ egWork = [state |-> NewEngineState, turn |-> NoTurn]
    /\ egLast = NoTurn
    /\ egTurns = 0
    /\ nextToolId = 0
    /\ egOpen = [i \in {} |-> ""]
    /\ egTools = [prev |-> <<>>, lastWith |-> <<>>]

notEngine == <<exVars, bkVars, journal, mwVars, seVars, pxVars, bdVars, svVars, ptVars, sbVars, lgVars,
    lwVars, lastVars>>

\* step 1: the tool results of the request are folded: for each of them
\* ClearMatchedToolID on the stored state and a tool_result event; then the
\* state is loaded and LastWasError is set to any_error
EngineFold(results) ==
    /\ egpc = "idle"
    /\ egTurns < MaxEngTurns
    /\ LET pending == egState.PendingToolIDs
           events == {[id |-> i, name |-> ClearMatchedToolID(pending, i).name,
                       isError |-> results[i]] : i \in DOMAIN results}
           cleared == [egState EXCEPT !.PendingToolIDs = ClearAll(pending, DOMAIN results)]
       IN /\ egState' = cleared
          /\ egWork' = [state |-> [cleared EXCEPT !.LastWasError = AnyError(results)],
                        turn |-> [NoTurn EXCEPT
                                    !.results = DOMAIN results,
                                    !.resultEvents = events,
                                    !.anyError = \E i \in DOMAIN results : results[i],
                                    !.found = egState.LastWasError,
                                    !.openBefore = egOpen,
                                    !.toolsBefore = egTools,
                                    !.prevError = egLast.anyError]]
    /\ egOpen' = [i \in DOMAIN egOpen \ DOMAIN results |-> egOpen[i]]
    /\ egpc' = "folded"
    /\ UNCHANGED <<egLast, egTurns, nextToolId, egTools, notEngine>>

\* step 2: turn_start is emitted
EngineTurnStart ==
    /\ egpc = "folded"
    /\ egWork' = [egWork EXCEPT
                    !.turn.errorRecovered =
                        ErrorRecovered(egWork.turn.found, egWork.state.LastWasError),
                    !.turn.turnDepth = egWork.state.TurnCount + 1]
    /\ egpc' = "started"
    /\ UNCHANGED <<egState, egLast, egTurns, nextToolId, egOpen, egTools, notEngine>>

\* steps 3 to 5: the tool_use blocks of the response become pending,
\* ComputePatterns runs on the first of them, turn_end is emitted
EngineResponse(uses) ==
    /\ egpc = "started"
    /\ LET ids == (nextToolId + 1)..(nextToolId + Len(uses))
           st == egWork.state
           pending == [i \in DOMAIN st.PendingToolIDs \cup ids |->
                          IF i \in ids THEN uses[i - nextToolId] ELSE st.PendingToolIDs[i]]
           r == ComputePatterns([st EXCEPT !.PendingToolIDs = pending], FirstToolName(uses))
       IN egWork' = [state |-> [r.state EXCEPT !.SessionToolCount = @ + Len(uses),
                                               !.TurnCount = @ + 1],
                     turn |-> [egWork.turn EXCEPT !.uses = uses, !.isRetry = r.ret]]
    /\ nextToolId' = nextToolId + Len(uses)
    /\ egpc' = "ended"
    /\ UNCHANGED <<egState, egLast, egTurns, egOpen, egTools, notEngine>>

\* step 6: the state is persisted, the turn is over
EnginePersist ==
    /\ egpc = "ended"
    /\ egState' = egWork.state
    /\ egLast' = egWork.turn
    /\ egTurns' = egTurns + 1
    /\ LET uses == egWork.turn.uses
           first == nextToolId - Len(uses) IN
       /\ egOpen' = [i \in DOMAIN egOpen \cup ((first + 1)..nextToolId) |->
                        IF i > first THEN uses[i - first] ELSE egOpen[i]]
       /\ egTools' = [prev |-> uses,
                      lastWith |-> IF uses # <<>> THEN uses ELSE egTools.lastWith]
    /\ egpc' = "idle"
    /\ UNCHANGED <<egWork, nextToolId, notEngine>>

NextEngine ==
    \/ \E results \in ResultBatches(egState.PendingToolIDs) : EngineFold(results)
    \/ EngineTurnStart
    \/ \E uses \in ToolUses : EngineResponse(uses)
    \/ EnginePersist

(***************************************************************************)
(* sendBatch: the entries of a batch are grouped into streams by their     *)
(* labels, and the streams are put into the push request                   *)
(***************************************************************************)
\* number of entries of the batches explored
MaxBatch == 3

\* e.config.Environment
Environment == "prod"

\* provider, machine and logType of the entries, as Push set them
EntryKinds ==
    {[provider |-> "anthropic", machine |-> "m", logType |-> "request"],
     [provider |-> "anthropic", machine |-> "m", logType |-> "response"],
     [provider |-> "openai", machine |-> "m", logType |-> "request"],
     [provider |-> "anthropic", machine |-> "m|request", logType |-> "response"],
     [provider |-> "anthropic", machine |-> "m", logType |-> "request|response"]}

\* the entries of a batch: id is the rank at which Push enqueued the entry, ok
\* whether json.Marshal(entry.entry) succeeds
BatchEntries ==
    {[id |-> 0, ok |-> ok, provider |-> k.provider, machine |-> k.machine,
      logType |-> k.logType] : ok \in BOOLEAN, k \in EntryKinds}

\* the batches: taken from the queue in order, so ids ascend
Batches ==
    {[i \in 1..Len(b) |-> [b[i] EXCEPT !.id = i]] :
        b \in UNION {[1..n -> BatchEntries] : n \in 1..MaxBatch}}

\* labels := map[string]string{...}
Labels_WithSession(entry) ==
    [k \in {"app", "provider", "environment", "machine", "log_type", "session_id"} |->
        CASE k = "app" -> "llm-proxy"
          [] k = "provider" -> entry.provider
          [] k = "environment" -> Environment
          [] k = "machine" -> entry.machine
          [] k = "log_type" -> entry.logType
          [] k = "session_id" -> "s"]
Labels(entry) ==
    [k \in {"app", "provider", "environment", "machine", "log_type"} |->
        CASE k = "app" -> "llm-proxy"
          [] k = "provider" -> entry.provider
          [] k = "environment" -> Environment
          [] k = "machine" -> entry.machine
          [] k = "log_type" -> entry.logType]

\* labelKey := fmt.Sprintf("%s|%s|%s|%s|%s", ...)
labelKey(labels) ==
    labels["app"] \o "|" \o labels["provider"] \o "|" \o labels["environment"] \o "|"
        \o labels["machine"] \o "|" \o labels["log_type"]

\* stream.Values = append(stream.Values, []string{tsNano, string(logLine)}); a
\* value is named by the id of its entry
AppendValue_Front(values, id) == <<id>> \o values
AppendValue(values, id) == Append(values, id)

InitSendBatch ==
    /\ sbEntries \in Batches
    /\ sbIdx = 0
    /\ sbStreams = [k \in {} |-> [Stream |-> Labels(sbEntries[1]), Values |-> <<>>]]
    /\ sbRequest = <<>>
    /\ sbpc = "group"

idleSendBatch ==
    /\ sbEntries = <<>>
    /\ sbIdx = 0
    /\ sbStreams = <<>>
    /\ sbRequest = <<>>
    /\ sbpc = "built"

notSendBatch == <<exVars, bkVars, journal, mwVars, seVars, pxVars, bdVars, svVars, ptVars, egVars, lgVars,
    lwVars, lastVars>>

\* one turn of the loop over entries: the stream of the entry's labels is
\* found or created, and the entry's line is appended unless json.Marshal
\* fails
SendBatchGroup ==
    /\ sbpc = "group"
    /\ sbIdx < Len(sbEntries)
    /\ sbIdx' = sbIdx + 1
    /\ LET entry == sbEntries[sbIdx + 1]
           labels == Labels(entry)
           key == labelKey(labels)
           stream == IF key \in DOMAIN sbStreams THEN sbStreams[key]
                     ELSE [Stream |-> labels, Values |-> <<>>]
           appended == IF entry.ok
                       THEN [stream EXCEPT !.Values = AppendValue(@, entry.id)]
                       ELSE stream
       IN sbStreams' = [k \in DOMAIN sbStreams \cup {key} |->
                           IF k = key THEN appended ELSE sbStreams[k]]
    /\ UNCHANGED <<sbEntries, sbRequest, sbpc, notSendBatch>>

\* the orders in which range visits the keys of a map
RECURSIVE Orders(_)
Orders(S) ==
    IF S = {} THEN {<<>>}
    ELSE UNION {{<<k>> \o o : o \in Orders(S \ {k})} : k \in S}

\* for _, stream := range streams { request.Streams = append(...) }
SendBatchBuild(order) ==
    /\ sbpc = "group"
    /\ sbIdx = Len(sbEntries)
    /\ sbRequest' = [i \in 1..Len(order) |-> sbStreams[order[i]]]
    /\ sbpc' = "built"
    /\ UNCHANGED <<sbEntries, sbIdx, sbStreams, notSendBatch>>

NextSendBatch ==
    \/ SendBatchGroup
    \/ \E order \in Orders(DOMAIN sbStreams) : SendBatchBuild(order)

(***************************************************************************)
(* Logger: getFile and writeEntry at the level of handles and of the bytes *)
(* that reach a journal file. A line is LineLen bytes; f.Write hands it to *)
(* the file in one or more write calls.                                    *)
(***************************************************************************)
\* number of writeEntry calls explored
MaxWrites == 3
\* bytes of a line, the final '\n' included
LineLen == 2

Writers == {"w1", "w2"}
LoggerSessions == {1, 2}

\* l.mu.Lock(): the mutex is free
MuFree_Always(mu) == TRUE
MuFree(mu) == mu = "none"

InitLogger ==
    /\ lgFiles = {}
    /\ lgOpens = [sid \in LoggerSessions |-> 0]
    /\ lgMu = "none"
    /\ lgpc = [w \in Writers |-> "idle"]
    /\ lgSid = [w \in Writers |-> 0]
    /\ lgCall = [w \in Writers |-> 0]
    /\ lgOff = [w \in Writers |-> 0]
    /\ lgFile = [sid \in LoggerSessions |-> <<>>]
    /\ lgCalls = 0

notLogger == <<exVars, bkVars, journal, mwVars, seVars, pxVars, bdVars, svVars, ptVars, egVars, sbVars,
    lwVars, lastVars>>

\* writeEntry calls getFile, which under l.mu returns the handle of the map
\* or opens the file and stores the handle
LoggerGetFile(w, sid) ==
    /\ lgpc[w] = "idle"
    /\ lgCalls < MaxWrites
    /\ MuFree(lgMu)
    /\ lgCalls' = lgCalls + 1
    /\ lgCall' = [lgCall EXCEPT ![w] = lgCalls + 1]
    /\ lgSid' = [lgSid EXCEPT ![w] = sid]
    /\ IF sid \in lgFiles
       THEN UNCHANGED <<lgFiles, lgOpens>>
       ELSE /\ lgFiles' = lgFiles \cup {sid}
            /\ lgOpens' = [lgOpens EXCEPT ![sid] = @ + 1]
    /\ lgpc' = [lgpc EXCEPT ![w] = "marshal"]
    /\ UNCHANGED <<lgMu, lgOff, lgFile, notLogger>>

\* writeEntry: json.Marshal(entry), then l.mu.Lock()
LoggerLock(w) ==
    /\ lgpc[w] = "marshal"
    /\ MuFree(lgMu)
    /\ lgMu' = w
    /\ lgpc' = [lgpc EXCEPT ![w] = "write"]
    /\ UNCHANGED <<lgFiles, lgOpens, lgSid, lgCall, lgOff, lgFile, lgCalls, notLogger>>

\* writeEntry: f.Write(append(data, '\n')): one write call takes n bytes of
\* what is left of the line; after the last one, the deferred l.mu.Unlock()
LoggerWrite(w, n) ==
    /\ lgpc[w] = "write"
    /\ n \in 1..(LineLen - lgOff[w])
    /\ lgFile' = [lgFile EXCEPT ![lgSid[w]] =
                     @ \o [i \in 1..n |-> <<lgCall[w], lgOff[w] + i>>]]
    /\ IF lgOff[w] + n = LineLen
       THEN /\ lgOff' = [lgOff EXCEPT ![w] = 0]
            /\ lgpc' = [lgpc EXCEPT ![w] = "idle"]
            /\ lgMu' = IF lgMu = w THEN "none" ELSE lgMu
       ELSE /\ lgOff' = [lgOff EXCEPT ![w] = lgOff[w] + n]
            /\ UNCHANGED <<lgpc, lgMu>>
    /\ UNCHANGED <<lgFiles, lgOpens, lgSid, lgCall, lgCalls, notLogger>>

NextLogger ==
    \/ \E w \in Writers, sid \in LoggerSessions : LoggerGetFile(w, sid)
    \/ \E w \in Writers : LoggerLock(w)
    \/ \E w \in Writers, n \in 1..LineLen : LoggerWrite(w, n)

(***************************************************************************)
(* LimitedWriter: the size-bounded capture of a body                       *)
(***************************************************************************)
\* largest limit N, longest chunk and number of Write calls explored
MaxLimit == 4
MaxChunk == 3
MaxLwWrites == 3

\* the bytes of the k-th chunk, of length len
Chunk(k, len) == [i \in 1..len |-> <<k, i>>]

\* the count a Write of len bytes returns; taken tells whether the chunk
\* went to W
WriteCount_Short(len, taken) == IF taken THEN len ELSE 0
WriteCount(len, taken) == len

\* Write(p): a chunk that would pass N, or that comes after one that did, is
\* dropped whole and sets Overflow; any other goes to W
LimitedWrite(lw, p) ==
    LET taken == ~lw.Overflow /\ Len(lw.W) + Len(p) <= lw.N
    IN [W |-> IF taken THEN lw.W \o p ELSE lw.W,
        N |-> lw.N,
        Overflow |-> ~taken,
        n |-> WriteCount(Len(p), taken),
        err |-> NoErr]

NoReturn == [n |-> 0, err |-> NoErr]

\* lw := &LimitedWriter{W: &buf, N: N}
InitLimited ==
    /\ lwN \in 0..MaxLimit
    /\ lwW = <<>>
    /\ lwOverflow = FALSE
    /\ lwLen = 0
    /\ lwRet = NoReturn
    /\ lwWrites = 0

idleLimited == InitLimited /\ lwN = 0

notLimited == <<exVars, bkVars, journal, mwVars, seVars, pxVars, bdVars, svVars, ptVars,
    egVars, sbVars, lgVars, lastVars>>

\* n, err := lw.Write(p)
LimitedWriterWrite(len) ==
    /\ lwWrites < MaxLwWrites
    /\ LET r == LimitedWrite([W |-> lwW, N |-> lwN, Overflow |-> lwOverflow],
                             Chunk(lwWrites + 1, len))
       IN /\ lwW' = r.W
          /\ lwOverflow' = r.Overflow
          /\ lwRet' = [n |-> r.n, err |-> r.err]
    /\ lwLen' = len
    /\ lwWrites' = lwWrites + 1
    /\ UNCHANGED <<lwN, notLimited>>

NextLimited == \E len \in 0..MaxChunk : LimitedWriterWrite(len)

(***************************************************************************)
(* ObfuscateHeaders: strings are sequences of characters                   *)
(***************************************************************************)
\* longest tail of a header value and number of applications explored
MaxKeyTail == 3
MaxObfuscate == 2

Dots == <<".", ".", ".">>
Hyphen == "-"
Sk == <<"s", "k", "-">>
SkAnt == <<"s", "k", "-", "a", "n", "t", "-">>
SkAntApi03 == <<"s", "k", "-", "a", "n", "t", "-", "a", "p", "i", "0", "3", "-">>
SkProj == <<"s", "k", "-", "p", "r", "o", "j", "-">>
Bearer == <<"B", "e", "a", "r", "e", "r", " ">>

\* strings.TrimPrefix, strings.TrimSuffix
TrimPrefix(str, prefix) ==
    IF HasPrefix(str, prefix) THEN SubSeq(str, Len(prefix) + 1, Len(str)) ELSE str
TrimSuffix(str, suffix) ==
    IF Len(str) >= Len(suffix) /\ SubSeq(str, Len(str) - Len(suffix) + 1, Len(str)) = suffix
    THEN SubSeq(str, 1, Len(str) - Len(suffix))
    ELSE str

\* strings.Index(str, c): the offset of the first c, -1 when there is none
Index(str, c) ==
    IF \E i \in DOMAIN str : str[i] = c
    THEN (CHOOSE i \in DOMAIN str : str[i] = c /\ \A j \in 1..(i - 1) : str[j] # c) - 1
    ELSE -1

\* the prefixes extractPrefix tries, in its order
KnownPrefixes == <<SkAntApi03, SkAnt, SkProj, Sk>>

extractPrefix(key) ==
    IF \E i \in DOMAIN KnownPrefixes : HasPrefix(key, KnownPrefixes[i])
    THEN LET i == CHOOSE i \in DOMAIN KnownPrefixes :
                     /\ HasPrefix(key, KnownPrefixes[i])
                     /\ \A j \in 1..(i - 1) : ~HasPrefix(key, KnownPrefixes[j])
         IN TrimSuffix(KnownPrefixes[i], <<Hyphen>>) \o <<Hyphen>>
    ELSE IF Index(key, Hyphen) > 0
         THEN SubSeq(key, 1, Index(key, Hyphen) + 1)
         ELSE <<>>

ObfuscateAPIKey(key) ==
    IF key = <<>> THEN <<>>
    ELSE extractPrefix(key) \o Dots
             \o (IF Len(key) > 4 THEN SubSeq(key, Len(key) - 3, Len(key)) ELSE <<>>)

\* strings.ToLower on the header names used
ToLower(name) ==
    CASE name = "X-Api-Key" -> "x-api-key"
      [] name = "Authorization" -> "authorization"
      [] name = "Content-Type" -> "content-type"
      [] OTHER -> name

isAPIKeyHeader(name) == ToLower(name) \in {"x-api-key", "authorization"}

obfuscateHeaderValue(value) ==
    IF HasPrefix(value, Bearer)
    THEN Bearer \o ObfuscateAPIKey(TrimPrefix(value, Bearer))
    ELSE ObfuscateAPIKey(value)

ObfuscateHeaders(headers) ==
    [key \in DOMAIN headers |->
        [i \in DOMAIN headers[key] |->
            IF isAPIKeyHeader(key) THEN obfuscateHeaderValue(headers[key][i])
            ELSE headers[key][i]]]

\* header values: a prefix followed by a short tail
KeyTails == UNION {[1..n -> {"a", Hyphen}] : n \in 0..MaxKeyTail}
KeyPrefixes == {<<>>, Sk, SkProj, Bearer, Bearer \o Sk}
HeaderValues == {prefix \o tail : prefix \in KeyPrefixes, tail \in KeyTails}
ObHeaderNames == {"X-Api-Key", "authorization", "Content-Type"}
HeaderMaps ==
    {[key \in S |-> <<value>>] : S \in SUBSET ObHeaderNames \ {{}}, value \in HeaderValues}

InitObfuscate ==
    /\ obHeaders \in HeaderMaps
    /\ obPrev = obHeaders
    /\ obN = 0

idleObfuscate ==
    /\ obHeaders = [key \in {"Content-Type"} |-> <<<<>>>>]
    /\ obPrev = obHeaders
    /\ obN = 0


notObfuscate == <<exVars, bkVars, journal, mwVars, seVars, pxVars, bdVars, svVars, ptVars,
    egVars, sbVars, lgVars, lwVars, sqVars, tcVars>>

\* result := ObfuscateHeaders(headers)
Obfuscate ==
    /\ obN < MaxObfuscate
    /\ obPrev' = obHeaders
    /\ obHeaders' = ObfuscateHeaders(obHeaders)
    /\ obN' = obN + 1
    /\ UNCHANGED notObfuscate

NextObfuscate == Obfuscate

(***************************************************************************)
(* GetOrCreateSession with a client session id, one statement at a time:   *)
(* concurrent calls meet at sm.mu.                                         *)
(***************************************************************************)
\* number of calls explored
MaxSeqCalls == 4

SeqCallers == {"g1", "g2"}

\* sm.mu.Lock(): the mutex is free
SmLockFree_Always(mu) == TRUE
SmLockFree(mu) == mu = "none"

InitSeq ==
    /\ sqDb = [s \in {} |-> [clientSessionID |-> NoClientSessionID, lastSeq |-> 1]]
    /\ sqNext = 0
    /\ sqMu = "none"
    /\ sqpc = [g \in SeqCallers |-> "idle"]
    /\ sqCid = [g \in SeqCallers |-> NoClientSessionID]
    /\ sqSid = [g \in SeqCallers |-> NoSession]
    /\ sqLast = [g \in SeqCallers |-> 0]
    /\ sqReturned = <<>>
    /\ sqCalls = 0


notSeq == <<exVars, bkVars, journal, mwVars, seVars, pxVars, bdVars, svVars, ptVars,
    egVars, sbVars, lgVars, lwVars, obVars, tcVars>>

\* a handler calls GetOrCreateSession with a body that carries cid
SmCall(g, cid) ==
    /\ sqpc[g] = "idle"
    /\ sqCalls < MaxSeqCalls
    /\ sqCalls' = sqCalls + 1
    /\ sqCid' = [sqCid EXCEPT ![g] = cid]
    /\ sqpc' = [sqpc EXCEPT ![g] = "lock"]
    /\ UNCHANGED <<sqDb, sqNext, sqMu, sqSid, sqLast, sqReturned, notSeq>>

\* sm.mu.Lock(); defer sm.mu.Unlock()
SmLock(g) ==
    /\ sqpc[g] = "lock"
    /\ SmLockFree(sqMu)
    /\ sqMu' = g
    /\ sqpc' = [sqpc EXCEPT ![g] = "find"]
    /\ UNCHANGED <<sqDb, sqNext, sqCid, sqSid, sqLast, sqReturned, sqCalls, notSeq>>

\* the return of the call, with the deferred sm.mu.Unlock()
SmReturn(g) ==
    /\ sqpc' = [sqpc EXCEPT ![g] = "idle"]
    /\ sqMu' = IF sqMu = g THEN "none" ELSE sqMu
    /\ sqCid' = [sqCid EXCEPT ![g] = NoClientSessionID]
    /\ sqSid' = [sqSid EXCEPT ![g] = NoSession]
    /\ sqLast' = [sqLast EXCEPT ![g] = 0]

\* existingSession, err := sm.db.FindByClientSessionID(clientSessionID)
SmFind(g, failed) ==
    /\ sqpc[g] = "find"
    /\ IF failed
       THEN SmReturn(g)
       ELSE LET existingSession == FindByClientSessionID(sqDb, sqCid[g]) IN
            /\ sqSid' = [sqSid EXCEPT ![g] = existingSession]
            /\ sqpc' = [sqpc EXCEPT ![g] =
                           IF existingSession # NoSession THEN "get" ELSE "create"]
            /\ UNCHANGED <<sqMu, sqCid, sqLast>>
    /\ UNCHANGED <<sqDb, sqNext, sqReturned, sqCalls, notSeq>>

\* _, _, _, lastSeq, err := sm.db.GetSessionWithClientID(existingSession)
SmGet(g, failed) ==
    /\ sqpc[g] = "get"
    /\ IF failed
       THEN SmReturn(g)
       ELSE /\ sqLast' = [sqLast EXCEPT ![g] = GetSessionWithClientID(sqDb, sqSid[g])]
            /\ sqpc' = [sqpc EXCEPT ![g] = "update"]
            /\ UNCHANGED <<sqMu, sqCid, sqSid>>
    /\ UNCHANGED <<sqDb, sqNext, sqReturned, sqCalls, notSeq>>

\* nextSeq := lastSeq + 1; sm.db.UpdateSessionSeq(existingSession, nextSeq);
\* return existingSession, nextSeq, false, nil
SmUpdate(g, failed) ==
    /\ sqpc[g] = "update"
    /\ LET nextSeq == sqLast[g] + 1 IN
       IF failed
       THEN UNCHANGED <<sqDb, sqReturned>>
       ELSE /\ sqDb' = UpdateSessionSeq(sqDb, sqSid[g], nextSeq)
            /\ sqReturned' = Append(sqReturned, [sid |-> sqSid[g], seq |-> nextSeq])
    /\ SmReturn(g)
    /\ UNCHANGED <<sqNext, sqCalls, notSeq>>

\* createNewSessionWithClientID: generateSessionID, os.MkdirAll,
\* sm.db.CreateSessionWithClientID; return sessionID, 1, true, nil
SmCreate(g, failed) ==
    /\ sqpc[g] = "create"
    /\ LET sessionID == generateSessionID(sqNext) IN
       IF failed
       THEN UNCHANGED <<sqDb, sqReturned>>
       ELSE /\ sqDb' = CreateSessionWithClientID(sqDb, sessionID, sqCid[g])
            /\ sqReturned' = Append(sqReturned, [sid |-> sessionID, seq |-> 1])
    /\ sqNext' = sqNext + 1
    /\ SmReturn(g)
    /\ UNCHANGED <<sqCalls, notSeq>>

NextSeq ==
    \/ \E g \in SeqCallers, cid \in ClientSessionIDs : SmCall(g, cid)
    \/ \E g \in SeqCallers : SmLock(g)
    \/ \E g \in SeqCallers, failed \in BOOLEAN : SmFind(g, failed)
    \/ \E g \in SeqCallers, failed \in BOOLEAN : SmGet(g, failed)
    \/ \E g \in SeqCallers, failed \in BOOLEAN : SmUpdate(g, failed)
    \/ \E g \in SeqCallers, failed \in BOOLEAN : SmCreate(g, failed)

(***************************************************************************)
(* The pattern state of one session under turns that complete at the same  *)
(* time: LoadPatternState, the update of the loaded state,                 *)
(* UpdatePatternState                                                      *)
(***************************************************************************)
\* number of turns explored
MaxConcTurns == 3

TurnWorkers == {"t1", "t2"}

InitTurns ==
    /\ tcStored = NewEngineState
    /\ tcpc = [t \in TurnWorkers |-> "idle"]
    /\ tcLocal = [t \in TurnWorkers |-> NewEngineState]
    /\ tcDone = 0
    /\ tcToolSum = 0

idleLast == idleObfuscate /\ InitSeq /\ InitTurns

notTurns == <<exVars, bkVars, journal, mwVars, seVars, pxVars, bdVars, svVars, ptVars,
    egVars, sbVars, lgVars, lwVars, obVars, sqVars>>

\* LoadPatternState: sm.mu is held for the read of the row and released at
\* the return
TurnLoad(t) ==
    /\ tcpc[t] = "idle"
    /\ tcDone + Cardinality({u \in TurnWorkers : tcpc[u] # "idle"}) < MaxConcTurns
    /\ tcLocal' = [tcLocal EXCEPT ![t] = tcStored]
    /\ tcpc' = [tcpc EXCEPT ![t] = "loaded"]
    /\ UNCHANGED <<tcStored, tcDone, tcToolSum, notTurns>>

\* ComputePatterns on the loaded state, session_tool_count and turn_count
TurnCompute(t, uses) ==
    /\ tcpc[t] = "loaded"
    /\ LET r == ComputePatterns(tcLocal[t], FirstToolName(uses)) IN
       tcLocal' = [tcLocal EXCEPT ![t] =
                      [r.state EXCEPT !.SessionToolCount = @ + Len(uses),
                                      !.TurnCount = @ + 1]]
    /\ tcToolSum' = tcToolSum + Len(uses)
    /\ tcpc' = [tcpc EXCEPT ![t] = "computed"]
    /\ UNCHANGED <<tcStored, tcDone, notTurns>>

\* UpdatePatternState: sm.mu is held for the upsert of the row
TurnUpdate(t) ==
    /\ tcpc[t] = "computed"
    /\ tcStored' = tcLocal[t]
    /\ tcDone' = tcDone + 1
    /\ tcpc' = [tcpc EXCEPT ![t] = "idle"]
    /\ UNCHANGED <<tcLocal, tcToolSum, notTurns>>

NextTurns ==
    \/ \E t \in TurnWorkers : TurnLoad(t)
    \/ \E t \in TurnWorkers, uses \in ToolUses : TurnCompute(t, uses)
    \/ \E t \in TurnWorkers : TurnUpdate(t)

\* the parts added to the rest
idleMore == InitEngine /\ idleSendBatch /\ InitLogger /\ idleLimited /\ idleLast

\* the parts at rest
idleRest == idleProxy /\ InitBedrock /\ InitServer /\ InitPatterns /\ idleMore

(***************************************************************************)
(* Specifications                                                          *)
(***************************************************************************)
\* the exporter with direct Push calls and Close callers
InitExporterSpec == InitExporter /\ idleBackoff /\ InitJournal /\ idleWriter /\ InitSession /\ idleRest
SpecExporter == InitExporterSpec /\ [][NextExporter]_vars

\* the retry loop of sendBatch for every configuration
InitBackoffSpec == InitExporter /\ InitBackoff /\ InitJournal /\ idleWriter /\ InitSession /\ idleRest
SpecBackoff == InitBackoffSpec /\ [][NextBackoff]_vars

\* the log methods of MultiWriter over the journal and the exporter
InitWriterSpec == InitExporter /\ idleBackoff /\ InitJournal /\ InitWriter /\ InitSession /\ idleRest
SpecWriter == InitWriterSpec /\ [][NextWriter]_vars

\* one request from the upstream call on
InitProxySpec ==
    /\ InitExporter /\ idleBackoff /\ InitJournal /\ idleWriter /\ InitSession
    /\ InitProxy /\ InitBedrock /\ InitServer /\ InitPatterns /\ idleMore
SpecProxy == InitProxySpec /\ [][NextProxy]_vars

\* a request whose upstream delivers its whole response, and whose client may
\* go away while the response is streamed
NextDisconnect ==
    \/ ProxyLogRequest
    \/ ProxyDo
    \/ StreamHeaders
    \/ \E logErr \in {NoErr} \cup JournalErrors : StreamLine(logErr)
    \/ ClientDisconnect
    \/ ProxyReadAll
    \/ \E logErr \in {NoErr} \cup JournalErrors : ProxyLogResponse(logErr)
    \/ ProxyReply
InitDisconnectSpec == InitProxySpec /\ ~upErr /\ upCut = Len(upResp.body)
SpecDisconnect == InitDisconnectSpec /\ [][NextDisconnect]_vars

\* the Bedrock requests
InitBedrockSpec == InitExporter /\ idleBackoff /\ InitJournal /\ idleWriter /\ InitSession /\ idleRest
SpecBedrock == InitBedrockSpec /\ [][NextBedrock]_vars

\* the server: the handlers and the shutdown goroutine
InitServerSpec == InitExporter /\ idleBackoff /\ InitJournal /\ idleWriter /\ InitSession /\ idleRest
SpecServer == InitServerSpec /\ [][NextServer]_vars

\* ComputePatterns over the turns of one session
InitPatternsSpec == InitExporter /\ idleBackoff /\ InitJournal /\ idleWriter /\ InitSession /\ idleRest
SpecPatterns == InitPatternsSpec /\ [][NextPatterns]_vars

\* the event engine over the turns of one session
InitEngineSpec == InitExporter /\ idleBackoff /\ InitJournal /\ idleWriter /\ InitSession /\ idleRest
SpecEngine == InitEngineSpec /\ [][NextEngine]_vars

\* sendBatch on every batch
InitSendBatchSpec ==
    /\ InitExporter /\ idleBackoff /\ InitJournal /\ idleWriter /\ InitSession
    /\ idleProxy /\ InitBedrock /\ InitServer /\ InitPatterns /\ InitEngine /\ InitSendBatch
    /\ InitLogger /\ idleLimited /\ idleLast
SpecSendBatch == InitSendBatchSpec /\ [][NextSendBatch]_vars

\* a header map and the applications of ObfuscateHeaders to it
InitObfuscateSpec ==
    /\ InitExporter /\ idleBackoff /\ InitJournal /\ idleWriter /\ InitSession
    /\ idleProxy /\ InitBedrock /\ InitServer /\ InitPatterns
    /\ InitEngine /\ idleSendBatch /\ InitLogger /\ idleLimited /\ InitObfuscate /\ InitSeq
    /\ InitTurns
SpecObfuscate == InitObfuscateSpec /\ [][NextObfuscate]_vars

\* the exporter while it runs, with its worker, ticker and POSTs making
\* progress
InitRunningSpec == InitExporter /\ idleBackoff /\ InitJournal /\ idleWriter /\ InitSession /\ idleRest
SpecRunning == InitRunningSpec /\ [][NextRunning]_vars /\ FairRunning

\* the Bedrock requests, with upstream calls that end and a fair semaphore
InitBedrockLiveSpec == InitExporter /\ idleBackoff /\ InitJournal /\ idleWriter /\ InitSession /\ idleRest
SpecBedrockLive == InitBedrockLiveSpec /\ [][NextBedrock]_vars /\ FairBedrock

\* concurrent GetOrCreateSession calls
InitSeqSpec == InitExporter /\ idleBackoff /\ InitJournal /\ idleWriter /\ InitSession /\ idleRest
SpecSeq == InitSeqSpec /\ [][NextSeq]_vars

\* turns of one session that complete concurrently
InitTurnsSpec == InitExporter /\ idleBackoff /\ InitJournal /\ idleWriter /\ InitSession /\ idleRest
SpecTurns == InitTurnsSpec /\ [][NextTurns]_vars

\* a LimitedWriter of any limit and the writes made to it
InitLimitedSpec ==
    /\ InitExporter /\ idleBackoff /\ InitJournal /\ idleWriter /\ InitSession
    /\ idleProxy /\ InitBedrock /\ InitServer /\ InitPatterns
    /\ InitEngine /\ idleSendBatch /\ InitLogger /\ InitLimited /\ idleLast
SpecLimited == InitLimitedSpec /\ [][NextLimited]_vars

\* concurrent writeEntry calls on the Logger
InitLoggerSpec == InitExporter /\ idleBackoff /\ InitJournal /\ idleWriter /\ InitSession /\ idleRest
SpecLogger == InitLoggerSpec /\ [][NextLogger]_vars

\* the handlers and the session manager
InitSessionSpec == InitExporter /\ idleBackoff /\ InitJournal /\ idleWriter /\ InitSession /\ idleRest
SpecSession == InitSessionSpec /\ [][NextSession]_vars

(***************************************************************************)
(* Properties of the exporter                                              *)
(***************************************************************************)
ReturnedNil(c) == cpc[c] = "returned" /\ cres[c] = "nil"

\* C2: Push never waits, whatever the worker and Close are doing: a Push call is
\* possible in every state, and it drops the entry and adds 1 to entriesDropped
\* when the queue holds BufferSize entries, else enqueues it and leaves
\* entriesDropped alone.
C2_PushNeverBlocks ==
    /\ [](pushCalls < MaxPush => ENABLED (\E ok \in BOOLEAN : Push(ok)))
    /\ [][pushCalls' # pushCalls =>
            IF Len(entryChan) >= BufferSize
            THEN entryChan' = entryChan /\ entriesDropped' = entriesDropped + 1
            ELSE /\ Len(entryChan') = Len(entryChan) + 1
                 /\ entryChan'[Len(entryChan')].id = pushCalls'
                 /\ entriesDropped' = entriesDropped]_vars

\* a Push dropped its entry on a full queue while the worker slept between
\* two retries
C2_Witness ==
    /\ lastPush.id > 0 /\ ~lastPush.enqueued
    /\ Len(entryChan) = BufferSize
    /\ wpc = "sleep"

\* C3: once the Close() call that ran the shutdown has returned without a
\* timeout and no Push was called after it, dropped = pushes - sent - failed.
C3_AccountingIdentity ==
    (\E c \in Closers : csig[c] /\ ReturnedNil(c) /\ cmark[c] = pushCalls)
        => entriesDropped = pushCalls - entriesSent - entriesFailed

C9_AtMostRetryMaxDispatches == dispatches <= RetryMax

\* C9 amended: a batch is dispatched at most RetryMax + 1 times (one attempt
\* and RetryMax retries), and it is counted as failed only after exactly
\* RetryMax + 1 failed dispatches.
C9_GivesUpAfterRetryMaxRetries ==
    /\ dispatches <= RetryMax + 1
    /\ failedAfter \in {0, RetryMax + 1}

\* a batch was given up
C9_Witness == failedAfter = RetryMax + 1 /\ entriesFailed > 0

C17_CloseIdempotent ==
    /\ [](closeSignals <= 1 /\ finalBatches <= 1)
    /\ [][\A c \in Closers :
             (cpc[c] = "idle" /\ cpc'[c] # "idle" /\ closeOnce # "fresh") =>
                 UNCHANGED <<closeChan, closeOnce, closeSignals, entryChan, workerVars,
                             pushVars>>]_vars

\* the final batch is being sent for the first Close() while a second,
\* concurrent Close() is parked on the Once
C17_Witness ==
    \E c, d \in Closers :
        /\ cpc[c] = "waiting" /\ cpc[d] = "blocked"
        /\ wctx = "final" /\ finalBatches = 1 /\ closeSignals = 1

\* C10: the wait before retry k is at most
\* min(cap, base * 2^(k-1)) + 0.25 * base * 2^(k-1), for every base and RetryMax.
C10_BackoffBound ==
    bkAttempt >= 1 =>
        LET x == bkRetryWait * Pow2(bkAttempt - 1)
            m == IF x < RetryWaitCap THEN x ELSE RetryWaitCap
        IN  4 * bkSleep <= 4 * m + x

\* a retry whose delay was capped and got jitter on top
C10_Witness == bkAttempt >= 2 /\ bkSleep > RetryWaitCap

(***************************************************************************)
(* Properties of MultiWriter                                               *)
(***************************************************************************)
\* C7: every log method returns exactly the error of the Logger call, nil
\* included, whether the exporter is absent or present and whatever its state.
C7_ReturnsJournalResult == mwCalls > 0 => mwLast.ret = mwLast.fileErr

\* a log method whose push was dropped on a full queue returned nil, the
\* result of its Logger write
C7_Witness ==
    /\ mwCalls > 0 /\ mwLast.pushed /\ ~lastPush.enqueued
    /\ mwLast.fileErr = NoErr /\ mwLast.ret = NoErr

\* C8 as stated: an entry is pushed only if the Logger write succeeded.
C8_PushOnlyAfterJournalSuccess == (mwCalls > 0 /\ mwLast.pushed) => mwLast.fileErr = NoErr

\* C8 amended: a log method pushes its entry exactly when the exporter is
\* present, whether the Logger write succeeded or failed.
C8_PushIffExporterPresent == mwCalls > 0 => (mwLast.pushed <=> lokiPresent)

\* a log method whose Logger write failed pushed its entry
C8_Witness == mwCalls > 0 /\ mwLast.fileErr # NoErr /\ mwLast.pushed /\ lastPush.enqueued

\* C18: m.file.Close() is called only after m.loki.Close() has returned (when
\* there is an exporter), and MultiWriter.Close never returns without having
\* called it, whatever m.loki.Close() returned.
C18_ExporterClosedBeforeJournal ==
    /\ [][(fileClosed' /\ ~fileClosed) =>
             (lokiPresent => (cpc[WriterCloser] = "returned" /\ closeOnce = "done"))]_vars
    /\ [](mwClose = "done" => fileClosed)

\* MultiWriter.Close returned the exporter's timeout error and the journal
\* was closed after it
C18_Witness ==
    /\ mwClose = "done" /\ lokiPresent /\ cres[WriterCloser] = "timeout"
    /\ fileClosed /\ mwCloseRet = "timeout"

(***************************************************************************)
(* Properties of the journal of a session                                  *)
(***************************************************************************)
IsSessionStart(e) == e.type = "session_start"
AllIdle == \A h \in Handlers : hpc[h] = "idle"

\* the request entry of seq is in the first n lines of the journal of s
RequestBefore(s, n, seq) ==
    \E j \in 1..n : journal[s][j].type = "request" /\ journal[s][j].seq = seq

Dispatched == {b \in BedrockRequests : bpc[b] = "dispatched"}

\* C15: the number of Bedrock requests dispatched and not completed never
\* exceeds bedrockMaxConcurrent, and a request that finds all permits taken
\* stays at the semaphore
C15_ConcurrencyBound ==
    /\ [](Cardinality(Dispatched) <= bedrockMaxConcurrent /\ semaphore = Cardinality(Dispatched))
    /\ [][\A b \in BedrockRequests :
            (bpc[b] = "acquire" /\ Cardinality(Dispatched) = bedrockMaxConcurrent)
                => bpc'[b] = "acquire"]_vars

\* all permits are taken and two requests wait
C15_Witness ==
    /\ Cardinality(Dispatched) = bedrockMaxConcurrent
    /\ Cardinality({b \in BedrockRequests : bpc[b] = "acquire"}) = 2

\* C37: a dispatched request gives its permit back when it completes,
\* whatever the status, and so every request waiting at the semaphore is
\* eventually dispatched and every dispatched request completes.
C37_PermitReleasedAndWaitersServed ==
    /\ [][\A b \in BedrockRequests :
            (bpc[b] = "dispatched" /\ bpc'[b] = "idle") => semaphore' = semaphore - 1]_vars
    /\ \A b \in BedrockRequests : (bpc[b] = "acquire") ~> (bpc[b] = "dispatched")
    /\ \A b \in BedrockRequests : (bpc[b] = "dispatched") ~> (bpc[b] = "idle" /\ bstatus[b] # 0)

\* a request waits while all permits are taken, after a request has
\* completed with a failure and given its permit back
C37_Witness ==
    /\ Cardinality(Dispatched) = bedrockMaxConcurrent
    /\ semaphore = bedrockMaxConcurrent
    /\ \E b \in BedrockRequests : bpc[b] = "acquire"
    /\ \E b \in BedrockRequests : bpc[b] = "idle" /\ bstatus[b] = StatusBadGateway

(***************************************************************************)
(* Properties of the forwarding                                            *)
(***************************************************************************)
NonHopByHop(h) == [k \in DOMAIN h \ HopByHop |-> h[k]]
\* the body bytes that arrived from the upstream
Received == SubSeq(upResp.body, 1, upCut)

RECURSIVE Concat(_)
Concat(chunks) == IF chunks = <<>> THEN <<>> ELSE Head(chunks) \o Concat(Tail(chunks))

\* a line: non-empty, with no delimiter before its last byte
IsLine(c) == Len(c) > 0 /\ \A i \in 1..(Len(c) - 1) : c[i] # LF

HasResponseEntry(status) ==
    \E i \in 1..Len(journal[ProxySession]) :
        /\ journal[ProxySession][i].type = "response"
        /\ journal[ProxySession][i].status = status

\* C29: when the client has gone away while the response was streamed and
\* the forwarder has finished, the journal has a response entry for the
\* request.
C29_ResponseAfterDisconnect ==
    (pxpc = "done" /\ cliGone) => HasResponseEntry(upResp.status)

\* after the client has gone away the forwarder copies no further line
StopsCopyingAfterDisconnect ==
    [][cliGone => cliChunks' = cliChunks]_vars

\* C14: when the upstream request failed with a network error and the
\* handler is done, the client has 502 and the journal has a response entry
\* with status 502
C14_BadGatewayLogged ==
    (pxpc = "done" /\ upErr) =>
        /\ cliStatus = StatusBadGateway
        /\ HasResponseEntry(StatusBadGateway)

(***************************************************************************)
(* Properties of the shutdown                                              *)
(***************************************************************************)
\* a request handler executes a log method call
LogStep == \E h \in Handlers : hpc[h] \in LogPositions /\ hpc'[h] # hpc[h]

\* C19 as stated: no request handler calls a log method once the Logger has
\* been closed by the shutdown.
C19_NoLogAfterClose == [][loggerClosed => ~LogStep]_vars

(***************************************************************************)
(* Properties of ComputePatterns                                           *)
(***************************************************************************)
\* C20: ComputePatterns returns true exactly when firstToolName is not empty,
\* equals the LastToolName it finds in the state, and LastWasError is set.
C20_IsRetryExact ==
    ptCalls > 0 =>
        (ptLast.ret <=> /\ ptLast.first # ""
                        /\ ptLast.first = ptLast.found.LastToolName
                        /\ ptLast.found.LastWasError)

\* a second retry of the same tool in a row
C20_Witness == ptCalls > 0 /\ ptLast.ret /\ ptState.RetryCount = 2

\* C24: whatever the state and the tool name, ComputePatterns leaves
\* LastWasError as it found it (and the calls made did so).
C24_LastWasErrorKept ==
    /\ [](\A firstToolName \in ToolNames :
             ComputePatterns(ptState, firstToolName).state.LastWasError = ptState.LastWasError)
    /\ [][ptCalls' # ptCalls => ptState'.LastWasError = ptState.LastWasError]_vars

\* a call that found LastWasError set and returned a retry left it set
C24_Witness ==
    ptCalls > 0 /\ ptLast.ret /\ ptLast.found.LastWasError /\ ptState.LastWasError

\* C38: after ComputePatterns ToolStreak is 0 if firstToolName is empty, the
\* ToolStreak it found plus one if firstToolName is the LastToolName it found,
\* and 1 otherwise; so the n-th call in a row with the same tool name leaves
\* ToolStreak = n.
C38_ToolStreakRule ==
    ptCalls > 0 =>
        /\ ptState.ToolStreak =
              IF ptLast.first = "" THEN 0
              ELSE IF ptLast.first = ptLast.found.LastToolName
                   THEN ptLast.found.ToolStreak + 1
                   ELSE 1
        /\ ptLast.first # "" => ptState.ToolStreak = ptLast.run

\* the third turn in a row whose first tool is the same, after a different turn
C38_Witness ==
    /\ ptCalls = 4 /\ ptLast.first = "bash" /\ ptLast.run = 3 /\ ptState.ToolStreak = 3

\* C40: in every state reached from the zero state by ComputePatterns calls,
\* with LastWasError set or cleared between them, RetryCount <= ToolStreak.
C40_RetryWithinStreak == ptState.RetryCount <= ptState.ToolStreak

\* two retries in a row: the retry count is one behind the streak
C40_Witness ==
    /\ ptCalls = 3 /\ ptLast.ret /\ ptState.RetryCount = 2 /\ ptState.ToolStreak = 3

(***************************************************************************)
(* GetOrCreateSession on an error                                          *)
(***************************************************************************)
\* C39: when GetOrCreateSession returns an error it returns "", 0, false, and
\* the session table is as it was before the call: no record added, every
\* lastSeq the same. It holds of every call on every table reached, and the
\* calls the handlers made left the table alone when they failed.
C39_ErrorLeavesStoreUnchanged ==
    /\ [](\A req \in Requests, fail \in DbFailures :
             LET r == GetOrCreateSession(db, nextSid, req, fail) IN
             r.err => /\ r.sid = NoSession /\ r.seq = 0 /\ ~r.isNew
                      /\ r.db = db)
    /\ [][\A h \in Handlers :
            (hpc[h] = "session" /\ hpc'[h] # "session" /\ assigned'[Len(assigned')].err)
                => db' = db]_vars

\* the call for the client session id of a recorded session failed, and the
\* record has the sequence number it had
C39_Witness ==
    /\ Len(assigned) > 1
    /\ assigned[Len(assigned)].err
    /\ assigned[Len(assigned)].cid # NoClientSessionID
    /\ LET sid == FindByClientSessionID(db, assigned[Len(assigned)].cid) IN
       sid # NoSession /\ db[sid].lastSeq = 1

(***************************************************************************)
(* Properties of the event engine                                          *)
(***************************************************************************)
Last(q) == q[Len(q)]

RetryAgainstFirstToolUse ==
    egTurns > 0 =>
        (egLast.isRetry <=> /\ egLast.uses # <<>>
                            /\ egLast.toolsBefore.lastWith # <<>>
                            /\ egLast.uses[1] = egLast.toolsBefore.lastWith[1]
                            /\ egLast.anyError)

\* C22 as stated: error_recovered of a turn is the OR of the is_error flags of
\* the tool results of the turn's own request.
C22_ErrorRecoveredAfterFold ==
    egTurns > 0 => egLast.errorRecovered = egLast.anyError

\* C22 amended: error_recovered of a turn is the LastWasError the turn found,
\* as it stood before the fold; the fold leaves LastWasError at the OR of the
\* is_error flags, which is what the turn persists.
C22_ErrorRecoveredBeforeFold ==
    /\ egTurns > 0 => egLast.errorRecovered = egLast.found
    /\ (egTurns > 0 /\ egpc = "idle") => egState.LastWasError = egLast.anyError
    /\ egpc \in {"folded", "started"} => egWork.state.LastWasError = egWork.turn.anyError

\* a turn whose request carried an error and whose turn_start does not show it
C22_Witness ==
    egTurns > 0 /\ egLast.anyError /\ ~egLast.errorRecovered /\ egLast.turnDepth = 2

\* C23: error_recovered of a turn is the error state of the turn before it:
\* false in the first turn, and else whether the request of the turn before
\* carried an error tool result, whatever the turn's own request carries.
C23_ErrorRecoveredFromPreviousTurn ==
    egTurns > 0 =>
        egLast.errorRecovered = (egLast.turnDepth > 1 /\ egLast.prevError)

\* the turn after a turn with an error shows it, with no error of its own
C23_Witness ==
    egTurns > 0 /\ egLast.errorRecovered /\ ~egLast.anyError /\ egLast.turnDepth = 3

\* C25: between turns the stored pending_tool_ids are the tool_use ids of the
\* completed turns that no request has answered yet, each with its tool name;
\* the tool_result events of a turn carry the name stored for their id, or
\* the empty name, and the ids answered are pending no more.
C25_PendingUntilResult ==
    /\ egpc = "idle" => egState.PendingToolIDs = egOpen
    /\ egTurns > 0 =>
          \A e \in egLast.resultEvents :
              e.name = IF e.id \in DOMAIN egLast.openBefore
                       THEN egLast.openBefore[e.id] ELSE ""
    /\ (egTurns > 0 /\ egpc = "idle") =>
          egLast.results \cap DOMAIN egState.PendingToolIDs = {}

\* a tool_result named after its tool_use of two turns before, while another
\* id stays pending
C25_Witness ==
    /\ egTurns = 3 /\ egpc = "idle"
    /\ \E e \in egLast.resultEvents : e.id = 1 /\ e.name = "bash"
    /\ 2 \in DOMAIN egState.PendingToolIDs

(***************************************************************************)
(* Properties of the push payload                                          *)
(***************************************************************************)
\* the streams built so far, and those of the request
StreamsBuilt ==
    {sbStreams[k] : k \in DOMAIN sbStreams} \cup {sbRequest[i] : i \in DOMAIN sbRequest}

\* the entries of the first n of the batch whose line goes to the stream of key
LinesOf(key, n) ==
    SelectSeq(SubSeq(sbEntries, 1, n), LAMBDA e : e.ok /\ labelKey(Labels(e)) = key)

\* C26: the values of every stream, in the grouping loop and in the request,
\* are the lines of its entries in the order of the batch, which is the order
\* in which the entries were taken from the queue.
C26_StreamOrderKept ==
    /\ \A k \in DOMAIN sbStreams :
          sbStreams[k].Values = [i \in DOMAIN LinesOf(k, sbIdx) |-> LinesOf(k, sbIdx)[i].id]
    /\ \A i \in DOMAIN sbRequest :
          \A a, b \in DOMAIN sbRequest[i].Values :
              a < b => sbRequest[i].Values[a] < sbRequest[i].Values[b]

\* a request whose first stream holds the first and the third entry of the
\* batch, the second entry being in another stream
C26_Witness ==
    /\ sbpc = "built" /\ Len(sbRequest) = 2
    /\ sbRequest[1].Values = <<1, 3>>
    /\ sbRequest[2].Values = <<2>>

\* C27: every stream has exactly the label keys app, provider, environment,
\* machine and log_type.
C27_FiveLabelKeys ==
    \A st \in StreamsBuilt :
        DOMAIN st.Stream = {"app", "provider", "environment", "machine", "log_type"}

\* a request with three streams
C27_Witness == sbpc = "built" /\ Len(sbRequest) = 3

\* the entries handled so far whose line is among the values of stream k
EntriesIn(k) ==
    {i \in 1..sbIdx : \E v \in DOMAIN sbStreams[k].Values : sbStreams[k].Values[v] = i}

\* C36: two entries of a batch have their lines in the same stream exactly
\* when their label tuples are equal, and the labels of a stream are the
\* labels of every entry whose line it holds.
C36_SameStreamIffSameLabels ==
    /\ \A i, j \in 1..sbIdx :
          (sbEntries[i].ok /\ sbEntries[j].ok) =>
              ((\E k \in DOMAIN sbStreams : i \in EntriesIn(k) /\ j \in EntriesIn(k))
                  <=> Labels(sbEntries[i]) = Labels(sbEntries[j]))
    /\ \A k \in DOMAIN sbStreams : \A i \in EntriesIn(k) :
          sbStreams[k].Stream = Labels(sbEntries[i])

\* what holds: the streams are the classes of the joined key, and entries of
\* equal labels always share a stream
SameStreamIffSameKey ==
    \A i, j \in 1..sbIdx :
        (sbEntries[i].ok /\ sbEntries[j].ok) =>
            /\ (\E k \in DOMAIN sbStreams : i \in EntriesIn(k) /\ j \in EntriesIn(k))
                  <=> labelKey(Labels(sbEntries[i])) = labelKey(Labels(sbEntries[j]))
            /\ Labels(sbEntries[i]) = Labels(sbEntries[j]) =>
                  \E k \in DOMAIN sbStreams : i \in EntriesIn(k) /\ j \in EntriesIn(k)

(***************************************************************************)
(* Properties of the running exporter                                      *)
(***************************************************************************)
\* the entry is in a batch that sendBatch was called with
InSentBatch(id) ==
    \/ id \in handled
    \/ wpc \in {"send", "sleep"} /\ id \in Ids(batch)

\* C34: while the exporter runs, every entry accepted into the queue is
\* eventually in a batch handed to sendBatch, also when no further entry
\* arrives: the ticker flushes a batch that has not reached BatchSize.
C34_AcceptedEventuallyDispatched ==
    \A id \in 1..MaxPush : (id \in accepted) ~> InSentBatch(id)

\* the last entry that will arrive is alone in a batch that the ticker has
\* flushed below BatchSize
C34_Witness ==
    /\ pushCalls = MaxPush /\ entryChan = <<>>
    /\ wpc = "send" /\ wctx = "tick"
    /\ Len(batch) < BatchSize /\ MaxPush \in Ids(batch)

\* C35: a batch that run hands to sendBatch from its select loop, that is
\* before it has taken the shutdown signal, has at least 1 and at most
\* BatchSize entries, and the buffer never waits at the select with
\* BatchSize entries.
C35_BatchWithinSize ==
    /\ (wpc \in {"send", "sleep"} /\ wctx # "final") => Len(batch) \in 1..BatchSize
    /\ wpc = "select" => Len(batch) < BatchSize

\* a batch flushed by size is being sent, with no shutdown signal yet
C35_Witness ==
    /\ wpc = "send" /\ wctx = "size" /\ Len(batch) = BatchSize
    /\ ~closeChan

(***************************************************************************)
(* Properties of concurrent GetOrCreateSession calls                       *)
(***************************************************************************)
\* C32: no two calls return the same seq for the same session, and a call
\* that is about to persist lastSeq + 1 read the lastSeq the table still
\* holds.
C32_SeqAllocationAtomic ==
    /\ \A i, j \in DOMAIN sqReturned : i # j => sqReturned[i] # sqReturned[j]
    /\ \A g \in SeqCallers :
          sqpc[g] = "update" => sqLast[g] = sqDb[sqSid[g]].lastSeq

\* one call has read lastSeq of a session that an earlier call has already
\* advanced, while the other caller waits for sm.mu with the same client id
C32_Witness ==
    \E g, w \in SeqCallers :
        /\ sqpc[g] = "update" /\ sqLast[g] >= 2
        /\ sqpc[w] = "lock" /\ sqCid[w] = sqCid[g]

(***************************************************************************)
(* Properties of concurrent turns                                          *)
(***************************************************************************)
\* C33: once all the turns under way have persisted, turn_count is the
\* number of turns persisted and session_tool_count the sum of their tool
\* uses: no update is lost between the load and the update of another turn.
C33_NoLostPatternUpdate ==
    (\A t \in TurnWorkers : tcpc[t] = "idle") =>
        /\ tcStored.TurnCount = tcDone
        /\ tcStored.SessionToolCount = tcToolSum

\* what holds: the row never counts more turns or tool uses than were
\* persisted, and it is exact as long as no turn loads while another is
\* between its load and its update
PatternUpdateNeverOvercounts ==
    /\ tcStored.TurnCount <= tcDone
    /\ tcStored.SessionToolCount <= tcToolSum

(***************************************************************************)
(* Properties of ObfuscateHeaders                                          *)
(***************************************************************************)
\* C31: header obfuscation is idempotent: obfuscating a map that is already
\* the result of an obfuscation gives the same map.
C31_ObfuscateIdempotent ==
    obN >= 2 => obHeaders = obPrev

\* what holds: a second obfuscation leaves a value alone when the first one
\* kept four characters of the key and the key has a known prefix or no
\* hyphen
ObfuscateStableOnLongKeys ==
    \A value \in HeaderValues :
        LET key == TrimPrefix(value, Bearer) IN
        (Len(key) > 4 /\ (HasPrefix(key, Sk) \/ Index(key, Hyphen) = -1)) =>
            obfuscateHeaderValue(obfuscateHeaderValue(value)) = obfuscateHeaderValue(value)

(***************************************************************************)
(* Properties of the LimitedWriter                                         *)
(***************************************************************************)
\* C30: whatever the limit N, every Write returns the length of its chunk
\* and no error, whether the chunk was taken, was the one that set Overflow
\* or came after it.
C30_FullLengthNoError ==
    lwWrites > 0 => lwRet = [n |-> lwLen, err |-> NoErr]

\* with N = 0 a chunk has set Overflow and a later chunk of some bytes has
\* been written
C30_Witness ==
    /\ lwN = 0 /\ lwOverflow /\ lwWrites >= 2 /\ lwLen > 0
    /\ lwW = <<>>

\* Overflow stays set, and W holds whole chunks and never more than N bytes
LimitedWriterBounded ==
    /\ Len(lwW) <= lwN
    /\ \A i \in DOMAIN lwW : lwW[i][2] = 1 \/ lwW[i - 1] = <<lwW[i][1], lwW[i][2] - 1>>

(***************************************************************************)
(* Properties of the Logger                                                *)
(***************************************************************************)
\* C28: no journal file ever has a second handle opened on it, and in every
\* file the bytes of a line are next to each other, in order: a first byte is
\* followed by the second byte of the same call, unless it is the last byte
\* of the file and its writer holds l.mu.
C28_OneHandleWholeLines ==
    /\ \A sid \in LoggerSessions : lgOpens[sid] <= 1
    /\ \A sid \in LoggerSessions : \A i \in DOMAIN lgFile[sid] :
          LET b == lgFile[sid][i] IN
          /\ b[2] > 1 => (i > 1 /\ lgFile[sid][i - 1] = <<b[1], b[2] - 1>>)
          /\ b[2] < LineLen =>
                IF i < Len(lgFile[sid])
                THEN lgFile[sid][i + 1] = <<b[1], b[2] + 1>>
                ELSE \E w \in Writers : lgMu = w /\ lgCall[w] = b[1] /\ lgpc[w] = "write"

\* two calls for the same session: one has written its line through a single
\* handle, the other is in the middle of its line
C28_Witness ==
    \E sid \in LoggerSessions :
        /\ lgOpens[sid] = 1 /\ Len(lgFile[sid]) = LineLen + 1
        /\ \A w \in Writers : lgSid[w] = sid

(***************************************************************************)
(* Properties of the session manager and the handlers                      *)
(***************************************************************************)
IsRequestEntry(e) == e.type = "request"
RequestEntries(s) == SelectSeq(journal[s], IsRequestEntry)

\* C1: in every session's journal the seq values of the request entries,
\* in file order, are 1, 2, 3, ...: contiguous and increasing from 1, also
\* with requests of one session handled concurrently
C1_RequestSeqsContiguous ==
    \A s \in SessionIds : \A i \in 1..Len(RequestEntries(s)) : RequestEntries(s)[i].seq = i

\* the requests the session manager answered without error for client id c
Resolved(c) == {i \in 1..Len(assigned) :
                   assigned[i].tracked /\ ~assigned[i].err /\ assigned[i].cid = c}

C5_NoClientIDAlwaysNew ==
    \A i \in 1..Len(assigned) :
        (assigned[i].tracked /\ assigned[i].cid = NoClientSessionID) =>
            /\ assigned[i].seq = 1
            /\ ~assigned[i].err => assigned[i].isNew
            /\ \A j \in 1..Len(assigned) : j # i => assigned[j].sid # assigned[i].sid

\* two resolved requests without client id and with the same body
C5_Witness ==
    \E i, j \in 1..Len(assigned) :
        /\ i < j
        /\ assigned[i].tracked /\ assigned[j].tracked
        /\ assigned[i].cid = NoClientSessionID /\ assigned[j].cid = NoClientSessionID
        /\ ~assigned[i].err /\ ~assigned[j].err
        /\ assigned[i].body = assigned[j].body
        /\ assigned[j].isNew /\ assigned[j].sid \notin {assigned[i].sid}

====
